---- MODULE Spec2Model ----
(***************************************************************************)
(* Order matching, exposure accounting and settlement of the betting       *)
(* exchange (sport.controller, matching-engine.service,                    *)
(* settlement.service, admin.controller, wallet.controller,                *)
(* casino.controller).                                                     *)
(*                                                                         *)
(* The committed database is the state.  Every handler is an operator      *)
(* from a database value to a result (the new database, or an error and    *)
(* the untouched database: a throw inside prisma.$transaction rolls the    *)
(* transaction back).  Money is counted in whole units and prices are      *)
(* whole decimal odds, so Prisma.Decimal arithmetic is exact.              *)
(* There is one match with one market and two runners.                     *)
(***************************************************************************)
EXTENDS Integers, Sequences, FiniteSets, TLC

\* ------------------------------------------------------------------------
\* Bounds and input sets
\* ------------------------------------------------------------------------
MaxOrders == 3
\* Orders in the runs with a placement in flight.
MaxTxOrders == 2
\* Orders and ledger entries in the runs with wallet and casino operations.
MaxWalletOrders == 2
MaxLedger == 3

Users == {"u1", "u2"}
Selections == {"s1", "s2"}
\* Orders are placed on the first runner; the second runner is the other
\* outcome of the market.
OrderSelections == {"s1"}
Sides == {"BACK", "LAY"}
Prices == {2, 3}
Stakes == {1, 2}
Amounts == {1, 2}
WinnerLists == SUBSET Selections
NoWinner == "none"
WinnerNames == Selections \cup {NoWinner}
MarketStatuses == {"OPEN", "SUSPENDED", "CLOSED", "SETTLED"}
MatchStatuses == {"UPCOMING", "LIVE", "COMPLETED", "CANCELLED"}

VARIABLES wallet, orders, trades, ledger, marketStatus, isWinner,
          marketExposure, matchStatus, pending, settling, walletOps

dbvars == <<wallet, orders, trades, ledger, marketStatus, isWinner,
            marketExposure, matchStatus>>
vars == <<wallet, orders, trades, ledger, marketStatus, isWinner,
          marketExposure, matchStatus, pending, settling, walletOps>>

\* The committed rows of every table the handlers touch.
DB ==
  [wallet |-> wallet, orders |-> orders, trades |-> trades, ledger |-> ledger,
   marketStatus |-> marketStatus, isWinner |-> isWinner,
   marketExposure |-> marketExposure, matchStatus |-> matchStatus]

\* ------------------------------------------------------------------------
\* Helpers
\* ------------------------------------------------------------------------
\* Mutant of Liability: the lay liability is the whole payout.
LiabilityWholePayout(side, price, stake) ==
  IF side = "BACK" THEN stake ELSE price * stake

\* Mutant of Liability: the lay liability forgets the odds.
LiabilityStakeOnly(side, price, stake) == stake

\* Required exposure of an order: stake for BACK, (price - 1) * stake for LAY.
Liability(side, price, stake) ==
  IF side = "BACK" THEN stake ELSE (price - 1) * stake

LedgerEntry(userId, amount, type, balance) ==
  [userId |-> userId, amount |-> amount, type |-> type, balance |-> balance]

ledgerCreate(db, userId, amount, type, balance) ==
  [db EXCEPT !.ledger = Append(@, LedgerEntry(userId, amount, type, balance))]

Result(db, ok, err) == [db |-> db, ok |-> ok, err |-> err]

\* ------------------------------------------------------------------------
\* matching-engine.service.ts
\* ------------------------------------------------------------------------
\* marketExposure.upsert: create the row (0 when the delta is a release),
\* or increment the existing row by the delta.
\* Mutant of adjustExposure: a missing row is created with the delta.
adjustExposureCreatesDelta(db, userId, delta) ==
  [db EXCEPT !.marketExposure[userId] =
     IF @.present
       THEN [@ EXCEPT !.exposureAmount = @ + delta]
       ELSE [present |-> TRUE, exposureAmount |-> delta]]

adjustExposure(db, userId, delta) ==
  [db EXCEPT !.marketExposure[userId] =
     IF @.present
       THEN [@ EXCEPT !.exposureAmount = @ + delta]
       ELSE [present |-> TRUE,
             exposureAmount |-> IF delta < 0 THEN 0 ELSE delta]]

\* WHERE clause of the candidate query of matchBackOrder.
IsLayCandidate(o, selectionId, backPrice) ==
  /\ o.selectionId = selectionId
  /\ o.side = "LAY"
  /\ o.status \in {"OPEN", "PARTIAL"}
  /\ o.price <= backPrice

\* Mutant of IsBackCandidate: only strictly better back prices.
IsBackCandidateStrict(o, selectionId, layPrice) ==
  /\ o.selectionId = selectionId
  /\ o.side = "BACK"
  /\ o.status \in {"OPEN", "PARTIAL"}
  /\ o.price > layPrice

\* WHERE clause of the candidate query of matchLayOrder.
IsBackCandidate(o, selectionId, layPrice) ==
  /\ o.selectionId = selectionId
  /\ o.side = "BACK"
  /\ o.status \in {"OPEN", "PARTIAL"}
  /\ o.price >= layPrice

\* Mutant of LayBefore: newest first among equal prices, dearest first.
LayBeforeReversed(os, a, b) ==
  \/ os[a].price > os[b].price
  \/ os[a].price = os[b].price /\ a > b

\* ORDER BY price ASC, "createdAt" ASC (order ids grow with createdAt).
LayBefore(os, a, b) ==
  \/ os[a].price < os[b].price
  \/ os[a].price = os[b].price /\ a < b

\* ORDER BY price DESC, "createdAt" ASC.
BackBefore(os, a, b) ==
  \/ os[a].price > os[b].price
  \/ os[a].price = os[b].price /\ a < b

RECURSIVE SortLay(_, _)
SortLay(os, ids) ==
  IF ids = {} THEN <<>>
  ELSE LET first == CHOOSE a \in ids : \A b \in ids \ {a} : LayBefore(os, a, b)
       IN <<first>> \o SortLay(os, ids \ {first})

RECURSIVE SortBack(_, _)
SortBack(os, ids) ==
  IF ids = {} THEN <<>>
  ELSE LET first == CHOOSE a \in ids : \A b \in ids \ {a} : BackBefore(os, a, b)
       IN <<first>> \o SortBack(os, ids \ {first})

LayCandidates(db, selectionId, backPrice) ==
  SortLay(db.orders, {i \in DOMAIN db.orders :
                        IsLayCandidate(db.orders[i], selectionId, backPrice)})

BackCandidates(db, selectionId, layPrice) ==
  SortBack(db.orders, {i \in DOMAIN db.orders :
                         IsBackCandidate(db.orders[i], selectionId, layPrice)})

\* Mutant of tradeStakeOf: always the candidate's whole remainder.
tradeStakeWholeCandidate(remaining, candidateRemaining) == candidateRemaining

\* tradeStake = min(remaining, candidateRemaining)
tradeStakeOf(remaining, candidateRemaining) ==
  IF remaining < candidateRemaining THEN remaining ELSE candidateRemaining

\* One candidate of either loop: the trade prints at the candidate's price
\* for min(remaining, candidate remaining); the candidate's fill state is
\* updated and `released` is taken off the candidate user's MarketExposure.
FillCandidate(db, cid, trade, tradeStake, released) ==
  LET c == db.orders[cid]
      newCandidateRemaining == c.remainingStake - tradeStake
      db1 == [db EXCEPT
                !.trades = Append(@, trade),
                !.orders[cid] =
                   [@ EXCEPT !.matchedStake = @ + tradeStake,
                             !.remainingStake = newCandidateRemaining,
                             !.status = IF newCandidateRemaining <= 0
                                          THEN "MATCHED" ELSE "PARTIAL"]]
  IN adjustExposure(db1, c.userId, -released)

RECURSIVE matchBackLoop(_, _, _, _, _)
matchBackLoop(db, candidates, remaining, incomingOrderId, selectionId) ==
  IF candidates = <<>> \/ remaining <= 0
    THEN [db |-> db, remainingStake |-> remaining]
    ELSE LET cid == Head(candidates)
             c == db.orders[cid]
             tradeStake == tradeStakeOf(remaining, c.remainingStake)
             trade == [backOrderId |-> incomingOrderId, layOrderId |-> cid,
                       selectionId |-> selectionId, price |-> c.price,
                       stake |-> tradeStake, settled |-> FALSE]
             layExposureReleased == (c.price - 1) * tradeStake
         IN matchBackLoop(
              FillCandidate(db, cid, trade, tradeStake, layExposureReleased),
              Tail(candidates), remaining - tradeStake,
              incomingOrderId, selectionId)

RECURSIVE matchLayLoop(_, _, _, _, _)
matchLayLoop(db, candidates, remaining, incomingOrderId, selectionId) ==
  IF candidates = <<>> \/ remaining <= 0
    THEN [db |-> db, remainingStake |-> remaining]
    ELSE LET cid == Head(candidates)
             c == db.orders[cid]
             tradeStake == tradeStakeOf(remaining, c.remainingStake)
             trade == [backOrderId |-> cid, layOrderId |-> incomingOrderId,
                       selectionId |-> selectionId, price |-> c.price,
                       stake |-> tradeStake, settled |-> FALSE]
         IN matchLayLoop(
              FillCandidate(db, cid, trade, tradeStake, tradeStake),
              Tail(candidates), remaining - tradeStake,
              incomingOrderId, selectionId)

\* Mutant of matchBackOrder: reports the whole stake as matched.
matchBackOrderAllMatched(db, incomingOrderId, selectionId, backPrice, stakeToMatch) ==
  LET r == matchBackLoop(db, LayCandidates(db, selectionId, backPrice),
                         stakeToMatch, incomingOrderId, selectionId)
  IN [db |-> r.db, matchedStake |-> stakeToMatch,
      remainingStake |-> r.remainingStake]

matchBackOrder(db, incomingOrderId, selectionId, backPrice, stakeToMatch) ==
  LET r == matchBackLoop(db, LayCandidates(db, selectionId, backPrice),
                         stakeToMatch, incomingOrderId, selectionId)
  IN [db |-> r.db, matchedStake |-> stakeToMatch - r.remainingStake,
      remainingStake |-> r.remainingStake]

matchLayOrder(db, incomingOrderId, selectionId, layPrice, stakeToMatch) ==
  LET r == matchLayLoop(db, BackCandidates(db, selectionId, layPrice),
                        stakeToMatch, incomingOrderId, selectionId)
  IN [db |-> r.db, matchedStake |-> stakeToMatch - r.remainingStake,
      remainingStake |-> r.remainingStake]

\* ------------------------------------------------------------------------
\* sport.controller.ts
\* ------------------------------------------------------------------------
\* Mutant of MarketIsOpen: only closed and settled markets refuse orders.
MarketIsOpenOrSuspended(status) == status \in {"OPEN", "SUSPENDED"}

\* The market passes the status check of placeOrder.
MarketIsOpen(status) == status = "OPEN"

\* Mutant of finalStatus: an order that is not filled completely is OPEN.
finalStatusOpenUnlessMatched(matchResult) ==
  IF matchResult.remainingStake <= 0 THEN "MATCHED" ELSE "OPEN"

\* The status that placeOrder gives the incoming order after the matching run.
finalStatus(matchResult) ==
  IF matchResult.remainingStake <= 0 THEN "MATCHED"
  ELSE IF matchResult.matchedStake > 0 THEN "PARTIAL"
  ELSE "OPEN"

placeOrder(db, userId, selectionId, side, price, stake) ==
  IF stake <= 0 THEN Result(db, FALSE, "stake must be positive")
  ELSE IF price <= 1 THEN Result(db, FALSE, "price must be > 1.00")
  ELSE IF ~MarketIsOpen(db.marketStatus)
    THEN Result(db, FALSE, "Market is not OPEN")
  ELSE IF selectionId \notin Selections
    THEN Result(db, FALSE, "Runner not found in this market")
  ELSE
    LET liability == Liability(side, price, stake)
        w == db.wallet[userId]
        availableBalance == w.balance - w.exposure
    IN IF availableBalance < liability
         THEN Result(db, FALSE, "Insufficient balance")
         ELSE
           LET newWalletExposure == w.exposure + liability
               orderId == Len(db.orders) + 1
               order == [userId |-> userId, selectionId |-> selectionId,
                         side |-> side, price |-> price, stake |-> stake,
                         matchedStake |-> 0, remainingStake |-> stake,
                         lockedExposure |-> liability, status |-> "OPEN"]
               db1 == [db EXCEPT !.wallet[userId].exposure = newWalletExposure,
                                 !.orders = Append(@, order)]
               db2 == ledgerCreate(db1, userId, -liability, "EXPOSURE_LOCK",
                                   w.balance)
               m == IF side = "BACK"
                      THEN matchBackOrder(db2, orderId, selectionId, price, stake)
                      ELSE matchLayOrder(db2, orderId, selectionId, price, stake)
               db3 == [m.db EXCEPT
                         !.orders[orderId] =
                            [@ EXCEPT !.matchedStake = m.matchedStake,
                                      !.remainingStake = m.remainingStake,
                                      !.status = finalStatus(m)]]
           IN Result(db3, TRUE, "")

\* Mutant of exposureToReleaseOf: the remainder without the odds.
exposureToReleaseStakeOnly(order) == order.remainingStake

\* Mutant of exposureToReleaseOf: the release of the whole order.
exposureToReleaseWholeOrder(order) ==
  IF order.side = "BACK" THEN order.stake
  ELSE (order.price - 1) * order.stake

\* The exposure that cancelOrder releases: that of the unmatched remainder.
exposureToReleaseOf(order) ==
  IF order.side = "BACK" THEN order.remainingStake
  ELSE (order.price - 1) * order.remainingStake

\* Mutant of cancelOrder: the order is looked up by its id alone.
cancelOrderAnyOwner(db, userId, orderId) ==
  IF orderId \notin DOMAIN db.orders
    THEN Result(db, FALSE, "Order not found")
  ELSE IF db.orders[orderId].status \notin {"OPEN", "PARTIAL"}
    THEN Result(db, FALSE, "Cannot cancel")
  ELSE
    LET order == db.orders[orderId]
        exposureToRelease ==
          IF order.side = "BACK" THEN order.remainingStake
          ELSE (order.price - 1) * order.remainingStake
        db1 == [db EXCEPT !.orders[orderId].status = "CANCELLED",
                          !.wallet[userId].exposure = @ - exposureToRelease]
    IN Result(ledgerCreate(db1, userId, exposureToRelease, "EXPOSURE_RELEASE",
                           db1.wallet[userId].balance),
              TRUE, "")

cancelOrder(db, userId, orderId) ==
  IF ~(orderId \in DOMAIN db.orders /\ db.orders[orderId].userId = userId)
    THEN Result(db, FALSE, "Order not found")
  ELSE IF db.orders[orderId].status \notin {"OPEN", "PARTIAL"}
    THEN Result(db, FALSE, "Cannot cancel")
  ELSE
    LET order == db.orders[orderId]
        exposureToRelease == exposureToReleaseOf(order)
        db1 == [db EXCEPT !.orders[orderId].status = "CANCELLED",
                          !.wallet[userId].exposure = @ - exposureToRelease]
    IN Result(ledgerCreate(db1, userId, exposureToRelease, "EXPOSURE_RELEASE",
                           db1.wallet[userId].balance),
              TRUE, "")

\* ------------------------------------------------------------------------
\* Shared row updates
\* ------------------------------------------------------------------------
\* wallet.update({ balance: { increment } })
walletIncrementBalance(db, userId, amount) ==
  [db EXCEPT !.wallet[userId].balance = @ + amount]

\* wallet.update({ exposure: { decrement } })
walletDecrementExposure(db, userId, amount) ==
  [db EXCEPT !.wallet[userId].exposure = @ - amount]

\* marketExposure.updateMany({ exposureAmount: { decrement } }): touches the
\* (user, market) row only when it exists.
marketExposureDecrement(db, userId, amount) ==
  IF db.marketExposure[userId].present
    THEN [db EXCEPT !.marketExposure[userId].exposureAmount = @ - amount]
    ELSE db

\* Ids of the rows a findMany returns, in id order.
RECURSIVE SeqOfSet(_)
SeqOfSet(S) ==
  IF S = {} THEN <<>>
  ELSE LET m == CHOOSE a \in S : \A b \in S : a <= b
       IN <<m>> \o SeqOfSet(S \ {m})

OpenOrderIds(db) ==
  SeqOfSet({i \in DOMAIN db.orders : db.orders[i].status \in {"OPEN", "PARTIAL"}})

\* Mutant of UnsettledTradeIds: the trade query without settled = false.
UnsettledTradeIdsAll(db) ==
  SeqOfSet({i \in DOMAIN db.trades : db.trades[i].selectionId \in Selections})

UnsettledTradeIds(db) ==
  SeqOfSet({i \in DOMAIN db.trades :
              db.trades[i].selectionId \in Selections /\ ~db.trades[i].settled})

\* ------------------------------------------------------------------------
\* settlement.service.ts
\* ------------------------------------------------------------------------
creditWallet(db, userId, amount) ==
  LET db1 == walletIncrementBalance(db, userId, amount)
  IN ledgerCreate(db1, userId, amount, "ORDER_SETTLE", db1.wallet[userId].balance)

releaseExposure(db, userId, amount) ==
  marketExposureDecrement(walletDecrementExposure(db, userId, amount),
                          userId, amount)

markSettled(db, tid) == [db EXCEPT !.trades[tid].settled = TRUE]

settleTrade(db, tid, outcome) ==
  LET trade == db.trades[tid]
      profit == (trade.price - 1) * trade.stake
      backUserId == db.orders[trade.backOrderId].userId
      layUserId == db.orders[trade.layOrderId].userId
      db1 == IF outcome = "BACK_WINS"
               THEN releaseExposure(
                      creditWallet(db, backUserId, trade.stake + profit),
                      layUserId, profit)
               ELSE releaseExposure(
                      creditWallet(db, layUserId, trade.stake),
                      backUserId, trade.stake)
  IN markSettled(db1, tid)

refundTrade(db, tid) ==
  LET trade == db.trades[tid]
      layLiability == (trade.price - 1) * trade.stake
      db1 == creditWallet(db, db.orders[trade.backOrderId].userId, trade.stake)
      db2 == creditWallet(db1, db.orders[trade.layOrderId].userId, layLiability)
  IN markSettled(db2, tid)

RECURSIVE settleTrades(_, _)
settleTrades(db, tids) ==
  IF tids = <<>> THEN db
  ELSE LET tid == Head(tids)
           w == db.isWinner[db.trades[tid].selectionId]
           db1 == IF w = "null" THEN refundTrade(db, tid)
                  ELSE IF w = "true" THEN settleTrade(db, tid, "BACK_WINS")
                  ELSE settleTrade(db, tid, "LAY_WINS")
       IN settleTrades(db1, Tail(tids))

RECURSIVE cancelOrdersLoop(_, _)
cancelOrdersLoop(db, ids) ==
  IF ids = <<>> THEN db
  ELSE LET id == Head(ids)
           order == db.orders[id]
           exposureToRelease ==
             IF order.side = "BACK" THEN order.remainingStake
             ELSE (order.price - 1) * order.remainingStake
           db1 == [db EXCEPT !.orders[id].status = "CANCELLED"]
           db2 == walletDecrementExposure(db1, order.userId, exposureToRelease)
           db3 == marketExposureDecrement(db2, order.userId, exposureToRelease)
           db4 == ledgerCreate(db3, order.userId, exposureToRelease,
                               "EXPOSURE_RELEASE",
                               db3.wallet[order.userId].balance)
       IN cancelOrdersLoop(db4, Tail(ids))

cancelOpenOrders(db) == cancelOrdersLoop(db, OpenOrderIds(db))

\* The transaction of settleMatch for an event whose winner is winnerName
\* (NoWinner for a draw).
\* Steps 3 to 6 of settleMatch for one market of the match.
settleMarket(db, winnerName) ==
  LET db2 == [db EXCEPT
                !.marketStatus = "SETTLED",
                !.isWinner =
                   [s \in Selections |->
                      IF winnerName # NoWinner /\ s = winnerName
                        THEN "true" ELSE "false"]]
      db3 == settleTrades(db2, UnsettledTradeIds(db2))
  IN cancelOpenOrders(db3)

settleMatch(db, winnerName) ==
  LET db1 == [db EXCEPT !.matchStatus = "COMPLETED"]
  IN IF db1.marketStatus \notin {"OPEN", "SUSPENDED"}
       THEN Result(db1, TRUE, "")
       ELSE Result(settleMarket(db1, winnerName), TRUE, "")

\* ------------------------------------------------------------------------
\* admin.controller.ts
\* ------------------------------------------------------------------------
RECURSIVE forceCloseCancelOrders(_, _)
forceCloseCancelOrders(db, ids) ==
  IF ids = <<>> THEN db
  ELSE LET id == Head(ids)
           order == db.orders[id]
           exposureToRelease ==
             IF order.side = "BACK" THEN order.remainingStake
             ELSE (order.price - 1) * order.remainingStake
           db1 == [db EXCEPT !.orders[id].status = "CANCELLED"]
           db2 == walletDecrementExposure(db1, order.userId, exposureToRelease)
           db3 == marketExposureDecrement(db2, order.userId, exposureToRelease)
           db4 == ledgerCreate(db3, order.userId, exposureToRelease,
                               "EXPOSURE_RELEASE",
                               db2.wallet[order.userId].balance)
       IN forceCloseCancelOrders(db4, Tail(ids))

forceCloseSettleTrade(db, tid) ==
  LET trade == db.trades[tid]
      w == db.isWinner[trade.selectionId]
      backUserId == db.orders[trade.backOrderId].userId
      layUserId == db.orders[trade.layOrderId].userId
      profit == (trade.price - 1) * trade.stake
      backPayout == trade.stake + profit
      refunded ==
        LET a == walletIncrementBalance(db, backUserId, trade.stake)
            b == ledgerCreate(a, backUserId, trade.stake, "ORDER_SETTLE",
                              a.wallet[backUserId].balance)
            c == walletIncrementBalance(b, layUserId, profit)
        IN ledgerCreate(c, layUserId, profit, "ORDER_SETTLE",
                        c.wallet[layUserId].balance)
      backWins ==
        LET a == walletIncrementBalance(db, backUserId, backPayout)
            b == ledgerCreate(a, backUserId, backPayout, "ORDER_SETTLE",
                              a.wallet[backUserId].balance)
            c == walletDecrementExposure(b, layUserId, profit)
        IN ledgerCreate(c, layUserId, -profit, "ORDER_SETTLE",
                        c.wallet[layUserId].balance)
      layWins ==
        LET a == walletIncrementBalance(db, layUserId, trade.stake)
            b == ledgerCreate(a, layUserId, trade.stake, "ORDER_SETTLE",
                              a.wallet[layUserId].balance)
            c == walletDecrementExposure(b, backUserId, trade.stake)
        IN ledgerCreate(c, backUserId, -trade.stake, "ORDER_SETTLE",
                        c.wallet[backUserId].balance)
  IN markSettled(IF w = "null" THEN refunded
                 ELSE IF w = "true" THEN backWins ELSE layWins, tid)

RECURSIVE forceCloseSettleTrades(_, _)
forceCloseSettleTrades(db, tids) ==
  IF tids = <<>> THEN db
  ELSE forceCloseSettleTrades(forceCloseSettleTrade(db, Head(tids)), Tail(tids))

\* Steps 1 to 5 of forceCloseMarket, after the check of the market status.
forceCloseSteps(db, winnerSelectionIds) ==
  LET db1 == [db EXCEPT
                !.marketStatus = "CLOSED",
                !.isWinner =
                   [s \in Selections |->
                      IF winnerSelectionIds # {}
                        THEN (IF s \in winnerSelectionIds
                                THEN "true" ELSE "false")
                        ELSE "null"]]
      db2 == forceCloseCancelOrders(db1, OpenOrderIds(db1))
      db3 == forceCloseSettleTrades(db2, UnsettledTradeIds(db2))
  IN [db3 EXCEPT !.marketStatus = "SETTLED"]

forceCloseMarket(db, winnerSelectionIds) ==
  IF db.marketStatus = "SETTLED"
    THEN Result(db, FALSE, "Market is already settled")
    ELSE Result(forceCloseSteps(db, winnerSelectionIds), TRUE, "")

updateMarketStatus(db, status) ==
  IF status \notin {"OPEN", "SUSPENDED", "CLOSED"}
    THEN Result(db, FALSE, "status must be OPEN, SUSPENDED, or CLOSED")
    ELSE Result([db EXCEPT !.marketStatus = status], TRUE, "")

updateMatchStatus(db, status) ==
  IF status \notin {"UPCOMING", "LIVE", "COMPLETED", "CANCELLED"}
    THEN Result(db, FALSE, "status must be one of UPCOMING, LIVE, COMPLETED, CANCELLED")
    ELSE Result([db EXCEPT !.matchStatus = status], TRUE, "")

\* ------------------------------------------------------------------------
\* wallet.controller.ts
\* ------------------------------------------------------------------------
lockExposure(db, userId, amount) ==
  IF amount <= 0 THEN Result(db, FALSE, "amount must be positive")
  ELSE LET w == db.wallet[userId]
           available == w.balance - w.exposure
       IN IF available < amount
            THEN Result(db, FALSE, "Insufficient available balance")
            ELSE
              LET db1 == [db EXCEPT
                            !.wallet[userId].exposure = @ + amount,
                            !.marketExposure[userId] =
                               IF @.present
                                 THEN [@ EXCEPT !.exposureAmount = @ + amount]
                                 ELSE [present |-> TRUE, exposureAmount |-> amount]]
              IN Result(ledgerCreate(db1, userId, -amount, "EXPOSURE_LOCK",
                                     db1.wallet[userId].balance), TRUE, "")

\* releaseExposure of wallet.controller.ts (the admin endpoint).
walletReleaseExposure(db, userId, amount) ==
  IF amount <= 0 THEN Result(db, FALSE, "amount must be positive")
  ELSE LET db1 == marketExposureDecrement(
                    walletDecrementExposure(db, userId, amount), userId, amount)
       IN Result(ledgerCreate(db1, userId, amount, "EXPOSURE_RELEASE",
                              db1.wallet[userId].balance), TRUE, "")

\* Direct children of a user in the user tree.
Children(userId) == IF userId = "u1" THEN {"u2"} ELSE {}

\* Mutant of transferCoins: the sender's entry records the balance read
\* before the transfer.
transferCoinsLedgerBefore(db, fromUserId, toUserId, amount) ==
  IF amount <= 0 THEN Result(db, FALSE, "amount must be positive")
  ELSE IF toUserId \notin Children(fromUserId)
    THEN Result(db, FALSE, "Can only transfer to direct children")
  ELSE LET senderWallet == db.wallet[fromUserId]
           receiverWallet == db.wallet[toUserId]
           available == senderWallet.balance - senderWallet.exposure
           newSenderBalance == senderWallet.balance - amount
           newReceiverBalance == receiverWallet.balance + amount
       IN IF available < amount
            THEN Result(db, FALSE, "Insufficient balance")
            ELSE
              LET db1 == [db EXCEPT
                            !.wallet[fromUserId].balance = newSenderBalance,
                            !.wallet[toUserId].balance = newReceiverBalance]
                  db2 == ledgerCreate(db1, fromUserId, -amount, "TRANSFER_OUT",
                                      senderWallet.balance)
              IN Result(ledgerCreate(db2, toUserId, amount, "TRANSFER_IN",
                                     newReceiverBalance), TRUE, "")

transferCoins(db, fromUserId, toUserId, amount) ==
  IF amount <= 0 THEN Result(db, FALSE, "amount must be positive")
  ELSE IF toUserId \notin Children(fromUserId)
    THEN Result(db, FALSE, "Can only transfer to direct children")
  ELSE LET senderWallet == db.wallet[fromUserId]
           receiverWallet == db.wallet[toUserId]
           available == senderWallet.balance - senderWallet.exposure
           newSenderBalance == senderWallet.balance - amount
           newReceiverBalance == receiverWallet.balance + amount
       IN IF available < amount
            THEN Result(db, FALSE, "Insufficient balance")
            ELSE
              LET db1 == [db EXCEPT
                            !.wallet[fromUserId].balance = newSenderBalance,
                            !.wallet[toUserId].balance = newReceiverBalance]
                  db2 == ledgerCreate(db1, fromUserId, -amount, "TRANSFER_OUT",
                                      newSenderBalance)
              IN Result(ledgerCreate(db2, toUserId, amount, "TRANSFER_IN",
                                     newReceiverBalance), TRUE, "")

addBalance(db, userId, amount) ==
  IF amount <= 0 THEN Result(db, FALSE, "amount must be positive")
  ELSE LET newBalance == db.wallet[userId].balance + amount
           db1 == [db EXCEPT !.wallet[userId].balance = newBalance]
       IN Result(ledgerCreate(db1, userId, amount, "CREDIT", newBalance),
                 TRUE, "")

\* ------------------------------------------------------------------------
\* casino.controller.ts
\* ------------------------------------------------------------------------
\* Mutant of placeCasinoBet: checks the balance, not balance - exposure.
placeCasinoBetIgnoresExposure(db, userId, amount) ==
  IF amount <= 0 THEN Result(db, FALSE, "Bet amount must be positive")
  ELSE LET w == db.wallet[userId]
           newBalance == w.balance - amount
       IN IF w.balance < amount
            THEN Result(db, FALSE, "Insufficient balance")
            ELSE LET db1 == [db EXCEPT !.wallet[userId].balance = newBalance]
                 IN Result(ledgerCreate(db1, userId, -amount, "DEBIT",
                                        newBalance), TRUE, "")

placeCasinoBet(db, userId, amount) ==
  IF amount <= 0 THEN Result(db, FALSE, "Bet amount must be positive")
  ELSE LET w == db.wallet[userId]
           availableBalance == w.balance - w.exposure
           newBalance == w.balance - amount
       IN IF availableBalance < amount
            THEN Result(db, FALSE, "Insufficient balance")
            ELSE LET db1 == [db EXCEPT !.wallet[userId].balance = newBalance]
                 IN Result(ledgerCreate(db1, userId, -amount, "DEBIT",
                                        newBalance), TRUE, "")

processCasinoWin(db, userId, amount) ==
  IF amount <= 0 THEN Result(db, FALSE, "Win amount must be positive")
  ELSE LET newBalance == db.wallet[userId].balance + amount
           db1 == [db EXCEPT !.wallet[userId].balance = newBalance]
       IN Result(ledgerCreate(db1, userId, amount, "CREDIT", newBalance),
                 TRUE, "")

\* ------------------------------------------------------------------------
\* State machine
\* ------------------------------------------------------------------------
Init ==
  /\ wallet = [u \in Users |-> [balance |-> 3, exposure |-> 0]]
  /\ orders = <<>>
  /\ trades = <<>>
  /\ ledger = <<>>
  /\ marketStatus = "OPEN"
  /\ isWinner = [s \in Selections |-> "null"]
  /\ marketExposure = [u \in Users |-> [present |-> FALSE, exposureAmount |-> 0]]
  /\ matchStatus = "UPCOMING"
  /\ pending = <<>>
  /\ settling = <<>>
  /\ walletOps = <<>>

\* Rows of db that differ in db2 (rows that a transaction updated).
ChangedRows(db, db2) ==
  [wallet |-> {u \in Users : db2.wallet[u] # db.wallet[u]},
   orders |-> {i \in DOMAIN db.orders : db2.orders[i] # db.orders[i]},
   marketExposure |-> {u \in Users : db2.marketExposure[u] # db.marketExposure[u]}]

\* A placement in flight remembers the rows committed since its snapshot.
MarkDirty(p, rows) ==
  [i \in DOMAIN p |->
     [p[i] EXCEPT !.dirty =
        [wallet |-> @.wallet \cup rows.wallet,
         orders |-> @.orders \cup rows.orders,
         marketExposure |-> @.marketExposure \cup rows.marketExposure]]]

\* The committed rows become those of db.
Write(db) ==
  /\ wallet' = db.wallet
  /\ orders' = db.orders
  /\ trades' = db.trades
  /\ ledger' = db.ledger
  /\ marketStatus' = db.marketStatus
  /\ isWinner' = db.isWinner
  /\ marketExposure' = db.marketExposure
  /\ matchStatus' = db.matchStatus

\* Commit the database of a handler that ran as one atomic transaction.
Commit(db) ==
  /\ Write(db)
  /\ pending' = MarkDirty(pending, ChangedRows(DB, db))
  /\ UNCHANGED <<settling, walletOps>>

PlaceOrderFrom(maxOrders, prices) ==
  \E u \in Users, s \in OrderSelections, side \in Sides, p \in prices, st \in Stakes :
    /\ Len(orders) < maxOrders
    /\ Commit(placeOrder(DB, u, s, side, p, st).db)

PlaceOrderUpTo(maxOrders) == PlaceOrderFrom(maxOrders, Prices)

PlaceOrder == PlaceOrderUpTo(MaxOrders)

CancelOrder ==
  \E u \in Users, id \in 1..MaxOrders :
    Commit(cancelOrder(DB, u, id).db)

ForceCloseMarket ==
  \E winnerSelectionIds \in WinnerLists :
    Commit(forceCloseMarket(DB, winnerSelectionIds).db)

\* checkAndSettleCompletedMatches settles the matches that are UPCOMING or
\* LIVE and that the score feed reports as completed.
SettleMatch ==
  \E winnerName \in WinnerNames :
    /\ matchStatus \in {"LIVE", "UPCOMING"}
    /\ Commit(settleMatch(DB, winnerName).db)

Next ==
  \/ PlaceOrder
  \/ CancelOrder
  \/ ForceCloseMarket
  \/ SettleMatch

Spec == Init /\ [][Next]_vars

\* ------------------------------------------------------------------------
\* Concurrent placements.  placeOrder runs in a RepeatableRead transaction:
\* its snapshot is taken by its first query (the market row) and every later
\* read sees that snapshot.  Other transactions may commit before the
\* placement writes; a write (or FOR UPDATE lock) of a row that was
\* committed after the snapshot aborts the placement with a serialization
\* failure, rows inserted after the snapshot are invisible to it.
\* ------------------------------------------------------------------------
BeginPlaceOrder ==
  \E u \in Users, s \in OrderSelections, side \in Sides, p \in Prices, st \in Stakes :
    /\ pending = <<>>
    /\ Len(orders) < MaxTxOrders
    /\ pending' = <<[snap |-> DB,
                     dirty |-> [wallet |-> {}, orders |-> {}, marketExposure |-> {}],
                     userId |-> u, selectionId |-> s, side |-> side,
                     price |-> p, stake |-> st]>>
    /\ UNCHANGED <<dbvars, settling, walletOps>>

\* The rows the placement locks FOR UPDATE: every candidate of its snapshot.
LockedCandidates(t) ==
  {i \in DOMAIN t.snap.orders :
     IF t.side = "BACK"
       THEN IsLayCandidate(t.snap.orders[i], t.selectionId, t.price)
       ELSE IsBackCandidate(t.snap.orders[i], t.selectionId, t.price)}

\* The placement's writes applied to the committed rows: updated rows take
\* the transaction's values, inserted rows are appended (the new order gets
\* the next free id).
MergeWrites(cur, snap, res) ==
  LET n0 == Len(snap.orders)
      newId == Len(cur.orders) + 1
      remap(id) == IF id = n0 + 1 THEN newId ELSE id
      newTrades ==
        [k \in 1..(Len(res.trades) - Len(snap.trades)) |->
           LET t == res.trades[Len(snap.trades) + k]
           IN [t EXCEPT !.backOrderId = remap(@), !.layOrderId = remap(@)]]
  IN [cur EXCEPT
        !.wallet = [u \in Users |->
                      IF res.wallet[u] # snap.wallet[u]
                        THEN res.wallet[u] ELSE cur.wallet[u]],
        !.marketExposure = [u \in Users |->
                      IF res.marketExposure[u] # snap.marketExposure[u]
                        THEN res.marketExposure[u] ELSE cur.marketExposure[u]],
        !.orders = [i \in DOMAIN cur.orders |->
                      IF i <= n0 /\ res.orders[i] # snap.orders[i]
                        THEN res.orders[i] ELSE cur.orders[i]]
                   \o <<res.orders[n0 + 1]>>,
        !.trades = cur.trades \o newTrades,
        !.ledger = cur.ledger \o SubSeq(res.ledger, Len(snap.ledger) + 1,
                                        Len(res.ledger))]

\* Mutant of FinishPlaceOrder: the placement commits although rows it read
\* or locked were committed by others after its snapshot.
FinishPlaceOrderNoConflict ==
  /\ pending # <<>>
  /\ LET t == pending[1]
         r == placeOrder(t.snap, t.userId, t.selectionId, t.side, t.price, t.stake)
     IN IF r.ok
          THEN LET db == MergeWrites(DB, t.snap, r.db)
               IN /\ wallet' = db.wallet
                  /\ orders' = db.orders
                  /\ trades' = db.trades
                  /\ ledger' = db.ledger
                  /\ marketExposure' = db.marketExposure
                  /\ UNCHANGED <<marketStatus, isWinner, matchStatus>>
          ELSE UNCHANGED dbvars
  /\ pending' = <<>>
  /\ UNCHANGED <<settling, walletOps>>

FinishPlaceOrder ==
  /\ pending # <<>>
  /\ LET t == pending[1]
         r == placeOrder(t.snap, t.userId, t.selectionId, t.side, t.price, t.stake)
         w == ChangedRows(t.snap, r.db)
         conflict == \/ w.wallet \cap t.dirty.wallet # {}
                     \/ (w.orders \cup LockedCandidates(t)) \cap t.dirty.orders # {}
                     \/ w.marketExposure \cap t.dirty.marketExposure # {}
     IN IF r.ok /\ ~conflict
          THEN LET db == MergeWrites(DB, t.snap, r.db)
               IN /\ wallet' = db.wallet
                  /\ orders' = db.orders
                  /\ trades' = db.trades
                  /\ ledger' = db.ledger
                  /\ marketExposure' = db.marketExposure
                  /\ UNCHANGED <<marketStatus, isWinner, matchStatus>>
          ELSE UNCHANGED dbvars
  /\ pending' = <<>>
  /\ UNCHANGED <<settling, walletOps>>

TxPlaceOrder == PlaceOrderUpTo(MaxTxOrders)

NextTx ==
  \/ TxPlaceOrder
  \/ CancelOrder
  \/ ForceCloseMarket
  \/ SettleMatch
  \/ BeginPlaceOrder
  \/ FinishPlaceOrder

SpecTx == Init /\ [][NextTx]_vars

\* ------------------------------------------------------------------------
\* The exchange together with the wallet and casino operations.
\* ------------------------------------------------------------------------
LedgerHasRoom == Len(ledger) < MaxLedger

LockExposure ==
  \E u \in Users, a \in Amounts :
    LedgerHasRoom /\ Commit(lockExposure(DB, u, a).db)

ReleaseExposure ==
  \E u \in Users, a \in Amounts :
    LedgerHasRoom /\ Commit(walletReleaseExposure(DB, u, a).db)

TransferCoins ==
  \E from \in Users, to \in Users, a \in Amounts :
    LedgerHasRoom /\ Commit(transferCoins(DB, from, to, a).db)

AddBalance ==
  \E u \in Users, a \in Amounts :
    LedgerHasRoom /\ Commit(addBalance(DB, u, a).db)

PlaceCasinoBet ==
  \E u \in Users, a \in Amounts :
    LedgerHasRoom /\ Commit(placeCasinoBet(DB, u, a).db)

ProcessCasinoWin ==
  \E u \in Users, a \in Amounts :
    LedgerHasRoom /\ Commit(processCasinoWin(DB, u, a).db)

WalletPlaceOrder == LedgerHasRoom /\ PlaceOrderUpTo(MaxWalletOrders)

NextWallet ==
  \/ WalletPlaceOrder
  \/ CancelOrder
  \/ ForceCloseMarket
  \/ SettleMatch
  \/ LockExposure
  \/ ReleaseExposure
  \/ TransferCoins
  \/ AddBalance
  \/ PlaceCasinoBet
  \/ ProcessCasinoWin

SpecWallet == Init /\ [][NextWallet]_vars

\* ------------------------------------------------------------------------
\* Settlements in flight and the admin status updates.  forceCloseMarket and
\* settleMatch run at the default isolation level (Read Committed): every
\* statement reads the rows committed at that moment, and an UPDATE holds the
\* lock of its row until the transaction ends.  forceCloseMarket checks the
\* market status with a plain read and then updates the market row;
\* settleMatch is started for a match that the plain read of
\* checkAndSettleCompletedMatches found UPCOMING or LIVE, updates the match
\* row, reads the market status and then updates the market row.  From the
\* update of the market row to the commit a settlement holds the market row
\* lock, so these statements of two settlements never overlap.
\* ------------------------------------------------------------------------
MaxInFlight == 1
MaxAdminOrders == 2

\* A settleMatch transaction has updated the match row and not yet committed.
HoldsMatchLock ==
  \E i \in DOMAIN settling : settling[i].kind = "settleMatch"

RemoveAt(seq, i) == SubSeq(seq, 1, i - 1) \o SubSeq(seq, i + 1, Len(seq))

\* forceCloseMarket up to the check of the market status.
BeginForceClose ==
  \E winnerSelectionIds \in WinnerLists :
    /\ Len(settling) < MaxInFlight
    /\ marketStatus # "SETTLED"
    /\ settling' = Append(settling,
                          [kind |-> "forceClose",
                           winnerSelectionIds |-> winnerSelectionIds,
                           winnerName |-> NoWinner, markets |-> {}])
    /\ UNCHANGED <<dbvars, pending, walletOps>>

\* settleMatch, started for a match that is UPCOMING or LIVE, up to the read
\* of the markets of the match that are OPEN or SUSPENDED.
BeginSettleMatch ==
  \E winnerName \in WinnerNames :
    /\ Len(settling) < MaxInFlight
    /\ matchStatus \in {"LIVE", "UPCOMING"}
    /\ ~HoldsMatchLock
    /\ settling' = Append(settling,
                          [kind |-> "settleMatch",
                           winnerSelectionIds |-> {},
                           winnerName |-> winnerName,
                           markets |-> IF marketStatus \in {"OPEN", "SUSPENDED"}
                                         THEN {"market"} ELSE {}])
    /\ UNCHANGED <<dbvars, pending, walletOps>>

\* The statements from the update of the market row to the commit.
FinishSettlement ==
  \E i \in DOMAIN settling :
    LET t == settling[i]
        db1 == [DB EXCEPT !.matchStatus = "COMPLETED"]
    IN /\ Write(IF t.kind = "forceClose"
                  THEN forceCloseSteps(DB, t.winnerSelectionIds)
                ELSE IF t.markets # {}
                  THEN settleMarket(db1, t.winnerName)
                ELSE db1)
       /\ settling' = RemoveAt(settling, i)
       /\ UNCHANGED <<pending, walletOps>>

UpdateMarketStatus ==
  \E status \in MarketStatuses :
    Commit(updateMarketStatus(DB, status).db)

\* The update of the match row waits for a settleMatch that holds its lock.
UpdateMatchStatus ==
  \E status \in MatchStatuses :
    /\ ~HoldsMatchLock
    /\ Commit(updateMatchStatus(DB, status).db)

\* Placements at one price: the settlements and status updates make the runs
\* long.
AdminPrices == {3}

AdminPlaceOrder == PlaceOrderFrom(MaxAdminOrders, AdminPrices)

\* A settlement that runs from its first statement to its commit while the
\* settlement in flight waits.
AdminForceCloseMarket == ForceCloseMarket

AdminSettleMatch == ~HoldsMatchLock /\ SettleMatch

NextAdmin ==
  \/ AdminPlaceOrder
  \/ CancelOrder
  \/ AdminForceCloseMarket
  \/ AdminSettleMatch
  \/ BeginForceClose
  \/ BeginSettleMatch
  \/ FinishSettlement
  \/ UpdateMarketStatus
  \/ UpdateMatchStatus

SpecAdmin == Init /\ [][NextAdmin]_vars

\* ------------------------------------------------------------------------
\* Wallet operations in flight.  lockExposure, transferCoins and
\* placeCasinoBet run at the default isolation level (Read Committed): they
\* read the wallet with a plain findUnique, check balance - exposure and then
\* update the wallet row.  Other transactions may commit between the read
\* and the update; the update waits for the row lock and then applies its
\* data (an increment, or the value computed from the read) to the committed
\* row.  The placements, locks, transfers and bets that commit while a wallet
\* operation is in flight run from their first statement to their commit.
\* ------------------------------------------------------------------------
MaxWalletOps == 1
MaxRaceOrders == 1
MaxRaceLedger == 2

RaceHasRoom == Len(ledger) < MaxRaceLedger

BeginLockExposure ==
  \E u \in Users, a \in Amounts :
    /\ Len(walletOps) < MaxWalletOps /\ RaceHasRoom
    /\ lockExposure(DB, u, a).ok
    /\ walletOps' = Append(walletOps,
                           [op |-> "lockExposure", userId |-> u, toUserId |-> u,
                            amount |-> a, read |-> wallet])
    /\ UNCHANGED <<dbvars, pending, settling>>

BeginTransferCoins ==
  \E from \in Users, to \in Users, a \in Amounts :
    /\ Len(walletOps) < MaxWalletOps /\ RaceHasRoom
    /\ transferCoins(DB, from, to, a).ok
    /\ walletOps' = Append(walletOps,
                           [op |-> "transferCoins", userId |-> from,
                            toUserId |-> to, amount |-> a, read |-> wallet])
    /\ UNCHANGED <<dbvars, pending, settling>>

BeginPlaceCasinoBet ==
  \E u \in Users, a \in Amounts :
    /\ Len(walletOps) < MaxWalletOps /\ RaceHasRoom
    /\ placeCasinoBet(DB, u, a).ok
    /\ walletOps' = Append(walletOps,
                           [op |-> "placeCasinoBet", userId |-> u, toUserId |-> u,
                            amount |-> a, read |-> wallet])
    /\ UNCHANGED <<dbvars, pending, settling>>

\* The writes of a wallet operation whose reads were t.read, applied to the
\* committed rows.
WalletOpWrites(db, t) ==
  IF t.op = "lockExposure"
    THEN LET db1 == [db EXCEPT
                       !.wallet[t.userId].exposure = @ + t.amount,
                       !.marketExposure[t.userId] =
                          IF @.present
                            THEN [@ EXCEPT !.exposureAmount = @ + t.amount]
                            ELSE [present |-> TRUE, exposureAmount |-> t.amount]]
         IN ledgerCreate(db1, t.userId, -t.amount, "EXPOSURE_LOCK",
                         db1.wallet[t.userId].balance)
  ELSE IF t.op = "transferCoins"
    THEN LET newSenderBalance == t.read[t.userId].balance - t.amount
             newReceiverBalance == t.read[t.toUserId].balance + t.amount
             db1 == [db EXCEPT
                       !.wallet[t.userId].balance = newSenderBalance,
                       !.wallet[t.toUserId].balance = newReceiverBalance]
             db2 == ledgerCreate(db1, t.userId, -t.amount, "TRANSFER_OUT",
                                 newSenderBalance)
         IN ledgerCreate(db2, t.toUserId, t.amount, "TRANSFER_IN",
                         newReceiverBalance)
  ELSE LET newBalance == t.read[t.userId].balance - t.amount
           db1 == [db EXCEPT !.wallet[t.userId].balance = newBalance]
       IN ledgerCreate(db1, t.userId, -t.amount, "DEBIT", newBalance)

FinishWalletOp ==
  \E i \in DOMAIN walletOps :
    LET db == WalletOpWrites(DB, walletOps[i])
    IN /\ Write(db)
       /\ pending' = MarkDirty(pending, ChangedRows(DB, db))
       /\ walletOps' = RemoveAt(walletOps, i)
       /\ UNCHANGED settling

RacePlaceOrder == RaceHasRoom /\ PlaceOrderUpTo(MaxRaceOrders)

RaceLockExposure == RaceHasRoom /\ LockExposure

RaceTransferCoins == RaceHasRoom /\ TransferCoins

RacePlaceCasinoBet == RaceHasRoom /\ PlaceCasinoBet

NextRace ==
  \/ RacePlaceOrder
  \/ RaceLockExposure
  \/ RaceTransferCoins
  \/ RacePlaceCasinoBet
  \/ BeginLockExposure
  \/ BeginTransferCoins
  \/ BeginPlaceCasinoBet
  \/ FinishWalletOp

SpecRace == Init /\ [][NextRace]_vars

\* ------------------------------------------------------------------------
\* Properties
\* ------------------------------------------------------------------------
RECURSIVE SumStake(_, _, _)
\* Sum of the stakes of the trades ts[from..to].
SumStake(ts, from, to) ==
  IF to < from THEN 0 ELSE ts[to].stake + SumStake(ts, from, to - 1)

RECURSIVE SumMatched(_, _, _)
\* Sum of the stakes of the trades ts[1..n] that reference order id.
SumMatched(ts, n, id) ==
  IF n = 0 THEN 0
  ELSE (IF ts[n].backOrderId = id \/ ts[n].layOrderId = id
          THEN ts[n].stake ELSE 0) + SumMatched(ts, n - 1, id)

\* A step that placed an order: the incoming order is the new last row.
Placed == Len(orders') = Len(orders) + 1
IncomingId == Len(orders) + 1
NewTradeIds == (Len(trades) + 1)..Len(trades')
RestingId(t) == IF t.backOrderId = IncomingId THEN t.layOrderId ELSE t.backOrderId
Active(o) == o.status \in {"OPEN", "PARTIAL"}

\* C1: after any sequence of placeOrder, cancelOrder, forceCloseMarket and
\* settleMatch every wallet has balance >= 0 and exposure >= 0.
C1_WalletsNonNegative ==
  \A u \in Users : wallet[u].balance >= 0 /\ wallet[u].exposure >= 0

\* C2: after every operation that touches a wallet (placement, cancellation,
\* settlement, force-close, admin lock and release, transfer, add-balance,
\* casino bet and win) the wallet's available balance, balance - exposure,
\* is not negative.
C2_AvailableNonNegative ==
  \A u \in Users : wallet[u].balance - wallet[u].exposure >= 0

\* C2 witness: a wallet whose whole balance is locked after its balance was
\* reduced by a transfer or a casino bet.
C2_Witness ==
  \E u \in Users :
    /\ wallet[u].exposure > 0
    /\ wallet[u].balance - wallet[u].exposure = 0
    /\ \E k \in DOMAIN ledger :
         ledger[k].userId = u /\ ledger[k].type \in {"DEBIT", "TRANSFER_OUT"}

\* C3: on the open market, placeOrder of a user whose balance - exposure is
\* below the required exposure (stake for BACK, (price - 1) * stake for LAY)
\* fails with the insufficient-balance error and leaves every table as it was.
C3_InsufficientFundsRejected ==
  \A u \in Users, s \in OrderSelections, side \in Sides,
     p \in Prices, st \in Stakes :
    LET required == IF side = "BACK" THEN st ELSE (p - 1) * st
    IN (marketStatus = "OPEN"
        /\ wallet[u].balance - wallet[u].exposure < required)
       => placeOrder(DB, u, s, side, p, st)
            = [db |-> DB, ok |-> FALSE, err |-> "Insufficient balance"]

\* C3 witness: a user with locked exposure for whom some placement is refused.
C3_Witness ==
  \E u \in Users, side \in Sides, p \in Prices, st \in Stakes :
    /\ marketStatus = "OPEN"
    /\ wallet[u].exposure > 0
    /\ wallet[u].balance - wallet[u].exposure
         < (IF side = "BACK" THEN st ELSE (p - 1) * st)
    /\ ~placeOrder(DB, u, "s1", side, p, st).ok

\* C4: every trade created by a placement prints at the resting order's
\* price for min(incoming remaining, resting remaining) at that instant;
\* matching stops only when the incoming order is filled or no candidate is
\* left, and the price is within the incoming order's limit.
C4_TradePriceAndStake ==
  [][Placed =>
      LET inc == orders'[IncomingId]
      IN /\ \A k \in NewTradeIds :
              LET t == trades'[k]
                  r == RestingId(t)
              IN /\ r \in DOMAIN orders
                 /\ t.price = orders[r].price
                 /\ t.stake =
                      (LET incRem == inc.stake - SumStake(trades', Len(trades) + 1, k - 1)
                           resRem == orders[r].remainingStake
                       IN IF incRem < resRem THEN incRem ELSE resRem)
                 /\ inc.side = "BACK" => t.price <= inc.price
                 /\ inc.side = "LAY" => t.price >= inc.price
         /\ \/ inc.remainingStake = 0
            \/ ~\E i \in DOMAIN orders :
                  /\ Active(orders'[i])
                  /\ orders'[i].selectionId = inc.selectionId
                  /\ orders'[i].side # inc.side
                  /\ IF inc.side = "BACK" THEN orders'[i].price <= inc.price
                                          ELSE orders'[i].price >= inc.price
    ]_vars

\* C4 witness: a trade printed at a price other than the incoming order's
\* limit (the later of its two orders is the incoming one).
C4_Witness ==
  \E k \in DOMAIN trades :
    orders[trades[k].backOrderId].price # orders[trades[k].layOrderId].price

\* C5: price-time priority.  When a placement trades against resting order
\* R, every other resting order of R's side on the selection that belongs to
\* another user than the incoming order and has a better price for the
\* incoming side, or the same price and an earlier creation, was filled
\* completely by an earlier trade of the same run.
C5_PriceTimePriority ==
  [][Placed =>
      LET inc == orders'[IncomingId]
      IN \A k \in NewTradeIds :
           LET r == RestingId(trades'[k])
           IN \A q \in DOMAIN orders :
                (/\ q # r
                 /\ Active(orders[q])
                 /\ orders[q].selectionId = orders[r].selectionId
                 /\ orders[q].side = orders[r].side
                 /\ orders[q].userId # inc.userId
                 /\ \/ (inc.side = "BACK" /\ orders[q].price < orders[r].price)
                    \/ (inc.side = "LAY" /\ orders[q].price > orders[r].price)
                    \/ (orders[q].price = orders[r].price /\ q < r))
                => \E j \in NewTradeIds :
                     /\ j < k
                     /\ RestingId(trades'[j]) = q
                     /\ trades'[j].stake = orders[q].remainingStake
    ]_vars

\* C5 witness: a trade against a resting order while another order of the
\* same side and selection, owned by another user than the incoming order,
\* rests at a worse price or a later time.
C5_Witness ==
  \E k \in DOMAIN trades, q \in DOMAIN orders :
    LET t == trades[k]
        incId == IF t.backOrderId > t.layOrderId THEN t.backOrderId ELSE t.layOrderId
        r == IF t.backOrderId > t.layOrderId THEN t.layOrderId ELSE t.backOrderId
    IN /\ q # r /\ q < incId
       /\ orders[q].side = orders[r].side
       /\ orders[q].selectionId = orders[r].selectionId
       /\ orders[q].userId # orders[incId].userId
       /\ orders[q].matchedStake = 0
       /\ orders[q].status = "OPEN"
       /\ (orders[q].price # orders[r].price \/ q > r)

\* C6: every order has matchedStake + remainingStake = stake, and its
\* matchedStake is the sum of the stakes of the trades that reference it.
C6_OrderFillConsistent ==
  \A i \in DOMAIN orders :
    /\ orders[i].matchedStake + orders[i].remainingStake = orders[i].stake
    /\ orders[i].matchedStake = SumMatched(trades, Len(trades), i)

\* C6 witness: a partially filled order next to a completely filled one.
C6_Witness ==
  \E i, j \in DOMAIN orders :
    /\ orders[i].status = "PARTIAL" /\ orders[i].matchedStake > 0
    /\ orders[j].status = "MATCHED" /\ orders[j].remainingStake = 0

\* A settlement step that settles exactly trade k, between two different
\* users, and cancels no order.
SettlesOnly(k) ==
  /\ k \in DOMAIN trades
  /\ ~trades[k].settled /\ trades'[k].settled
  /\ \A j \in DOMAIN trades \ {k} : trades'[j].settled = trades[j].settled
  /\ \A i \in DOMAIN orders : orders'[i].status = orders[i].status
  /\ orders[trades[k].backOrderId].userId # orders[trades[k].layOrderId].userId

\* C7: settling a trade (p, s) on a winning selection credits p * s to the
\* back user and takes s off the back user's exposure, and takes
\* (p - 1) * s off the lay user's exposure without changing the lay balance.
C7_BackWinsSettlement ==
  [][\A k \in DOMAIN trades :
       (SettlesOnly(k) /\ isWinner'[trades[k].selectionId] = "true") =>
         LET t == trades[k]
             b == orders[t.backOrderId].userId
             l == orders[t.layOrderId].userId
         IN /\ wallet'[b].balance = wallet[b].balance + t.price * t.stake
            /\ wallet'[b].exposure = wallet[b].exposure - t.stake
            /\ wallet'[l].exposure = wallet[l].exposure - (t.price - 1) * t.stake
            /\ wallet'[l].balance = wallet[l].balance
    ]_vars

\* C8: settling a trade (p, s) on a losing selection credits s to the lay
\* user and takes (p - 1) * s off the lay user's exposure, and takes s off
\* the back user's exposure without crediting the back user.
C8_LayWinsSettlement ==
  [][\A k \in DOMAIN trades :
       (SettlesOnly(k) /\ isWinner'[trades[k].selectionId] = "false") =>
         LET t == trades[k]
             b == orders[t.backOrderId].userId
             l == orders[t.layOrderId].userId
         IN /\ wallet'[l].balance = wallet[l].balance + t.stake
            /\ wallet'[l].exposure = wallet[l].exposure - (t.price - 1) * t.stake
            /\ wallet'[b].exposure = wallet[b].exposure - t.stake
            /\ wallet'[b].balance = wallet[b].balance
    ]_vars

\* C9: refund-all settlement of a trade (p, s) returns s to the back user
\* and (p - 1) * s to the lay user and releases each side's exposure for the
\* trade, so that a user whose exposure came from the trade alone ends with
\* exposure 0.
C9_RefundAll ==
  [][\A k \in DOMAIN trades :
       (SettlesOnly(k) /\ isWinner'[trades[k].selectionId] = "null") =>
         LET t == trades[k]
             b == orders[t.backOrderId].userId
             l == orders[t.layOrderId].userId
         IN /\ wallet'[b].balance = wallet[b].balance + t.stake
            /\ wallet'[l].balance = wallet[l].balance + (t.price - 1) * t.stake
            /\ wallet'[b].exposure = wallet[b].exposure - t.stake
            /\ wallet'[l].exposure = wallet[l].exposure - (t.price - 1) * t.stake
            /\ (wallet[b].exposure = t.stake => wallet'[b].exposure = 0)
    ]_vars

\* C10: a SETTLED market has every trade settled and every order MATCHED or
\* CANCELLED.
C10_SettledMarketClean ==
  marketStatus = "SETTLED" =>
    /\ \A k \in DOMAIN trades : trades[k].settled
    /\ \A i \in DOMAIN orders : orders[i].status \in {"MATCHED", "CANCELLED"}

\* Trade k goes from unsettled to settled in the step.
BecomesSettled(k) == ~trades[k].settled /\ trades'[k].settled

\* What the settlement of trade k in the step pays to the winning side (both
\* sides on a refund), by the runner flag that the step leaves.
SettlePaid(k) ==
  LET t == trades[k]
  IN IF isWinner'[t.selectionId] = "false" THEN t.stake ELSE t.price * t.stake

\* What the settlement of trade k in the step takes off the losing side's
\* exposure.
SettleReleased(k) ==
  LET t == trades[k]
      w == isWinner'[t.selectionId]
  IN IF w = "true" THEN (t.price - 1) * t.stake
     ELSE IF w = "false" THEN t.stake ELSE 0

\* What the cancellation of order i releases.
CancelReleased(i) ==
  IF orders[i].side = "BACK" THEN orders[i].remainingStake
  ELSE (orders[i].price - 1) * orders[i].remainingStake

RECURSIVE SumPaid(_)
SumPaid(n) ==
  IF n = 0 THEN 0
  ELSE (IF BecomesSettled(n) THEN SettlePaid(n) ELSE 0) + SumPaid(n - 1)

RECURSIVE SumReleased(_)
SumReleased(n) ==
  IF n = 0 THEN 0
  ELSE (IF BecomesSettled(n) THEN SettleReleased(n) ELSE 0) + SumReleased(n - 1)

RECURSIVE SumCancelReleased(_)
SumCancelReleased(n) ==
  IF n = 0 THEN 0
  ELSE (IF Active(orders[n]) /\ orders'[n].status = "CANCELLED"
          THEN CancelReleased(n) ELSE 0) + SumCancelReleased(n - 1)

TotalBalance(w) == w["u1"].balance + w["u2"].balance
TotalExposure(w) == w["u1"].exposure + w["u2"].exposure

RECURSIVE CountType(_, _, _)
\* Number of entries of the type among l[1..n].
CountType(l, n, type) ==
  IF n = 0 THEN 0
  ELSE (IF l[n].type = type THEN 1 ELSE 0) + CountType(l, n - 1, type)

\* C11: forceCloseMarket on a SETTLED market is rejected and changes
\* nothing, settleMatch on a SETTLED market changes no wallet, order, trade,
\* ledger entry, runner or market; and in every step of any interleaving of
\* settlements, placements, cancellations and status updates a settled trade
\* stays settled and unchanged, and the balances and (outside placements)
\* the exposures change by exactly the payouts and releases of the trades
\* that become settled in the step and of the orders cancelled in it.
C11_SettlementIdempotent ==
  /\ [](marketStatus = "SETTLED" =>
          /\ \A w \in WinnerLists :
               forceCloseMarket(DB, w)
                 = [db |-> DB, ok |-> FALSE, err |-> "Market is already settled"]
          /\ \A n \in WinnerNames :
               settleMatch(DB, n).db = [DB EXCEPT !.matchStatus = "COMPLETED"])
  /\ [][
         /\ \A k \in DOMAIN trades :
              trades[k].settled => trades'[k] = trades[k]
         /\ TotalBalance(wallet') - TotalBalance(wallet) = SumPaid(Len(trades))
         /\ (Len(orders') = Len(orders) =>
               TotalExposure(wallet) - TotalExposure(wallet')
                 = SumReleased(Len(trades)) + SumCancelReleased(Len(orders)))
         /\ (CountType(ledger', Len(ledger'), "ORDER_SETTLE")
                > CountType(ledger, Len(ledger), "ORDER_SETTLE")
               => \E j \in DOMAIN trades : BecomesSettled(j))
       ]_vars

\* C11 witness: a trade that settleMatch settled (one ORDER_SETTLE entry,
\* runner flags true or false) in a market on which a later forceCloseMarket
\* without winners ran (runner flags null): the trade was not settled again.
C11_Witness ==
  /\ marketStatus = "SETTLED"
  /\ settling = <<>>
  /\ Len(trades) = 1 /\ trades[1].settled
  /\ isWinner[trades[1].selectionId] = "null"
  /\ CountType(ledger, Len(ledger), "ORDER_SETTLE") = 1

RECURSIVE LedgerSum(_, _, _, _)
\* Sum of the amounts of the user's entries of the types among l[1..n].
LedgerSum(l, n, u, types) ==
  IF n = 0 THEN 0
  ELSE (IF l[n].userId = u /\ l[n].type \in types THEN l[n].amount ELSE 0)
       + LedgerSum(l, n - 1, u, types)

\* C12: with placements, admin locks, transfers and casino bets on the same
\* wallet in flight at the same time, every committed wallet has
\* balance - exposure >= 0 and no update is lost: the balance is the opening
\* balance plus the credits, debits and transfers of the ledger, and the
\* exposure is the sum of the exposure locks of the ledger.
C12_NoOverspendUnderConcurrency ==
  \A u \in Users :
    /\ wallet[u].balance - wallet[u].exposure >= 0
    /\ wallet[u].balance
         = 3 + LedgerSum(ledger, Len(ledger), u,
                         {"CREDIT", "DEBIT", "TRANSFER_IN", "TRANSFER_OUT"})
    /\ wallet[u].exposure
         = 0 - LedgerSum(ledger, Len(ledger), u, {"EXPOSURE_LOCK"})

\* C13: with placements in flight while other placements commit, the stakes
\* of the trades made against an order never add up to more than its stake
\* and no order's remainingStake is negative.
C13_RestingOrderClaimedOnce ==
  \A i \in DOMAIN orders :
    /\ orders[i].remainingStake >= 0
    /\ SumMatched(trades, Len(trades), i) <= orders[i].stake

\* C13 witness: a placement in flight whose snapshot holds a resting order
\* as an open candidate that another placement has filled since.
C13_Witness ==
  /\ pending # <<>>
  /\ \E i \in LockedCandidates(pending[1]) :
       /\ i \in pending[1].dirty.orders
       /\ orders[i].status = "MATCHED"
       /\ \E k \in DOMAIN trades :
            trades[k].backOrderId = i \/ trades[k].layOrderId = i

\* C14: a successful placeOrder raises the placing user's wallet exposure by
\* the required exposure (stake for BACK, (price - 1) * stake for LAY),
\* leaves every balance and every other wallet as it was, stores the order
\* with lockedExposure equal to that amount, and appends exactly one ledger
\* entry: EXPOSURE_LOCK, amount = -required, balance = the unchanged balance.
C14_PlacementLocksExposure ==
  [][Placed =>
      LET o == orders'[IncomingId]
          u == o.userId
          required == IF o.side = "BACK" THEN o.stake
                      ELSE (o.price - 1) * o.stake
      IN /\ wallet'[u].exposure = wallet[u].exposure + required
         /\ wallet'[u].balance = wallet[u].balance
         /\ \A v \in Users \ {u} : wallet'[v] = wallet[v]
         /\ o.lockedExposure = required
         /\ ledger' = Append(ledger,
                             [userId |-> u, amount |-> 0 - required,
                              type |-> "EXPOSURE_LOCK",
                              balance |-> wallet[u].balance])
    ]_vars

\* C14 witness: a LAY order at price 3 that was matched at placement, with
\* its lock of twice the stake in the order and in the ledger.
C14_Witness ==
  \E i \in DOMAIN orders, k \in DOMAIN ledger :
    /\ orders[i].side = "LAY" /\ orders[i].price = 3
    /\ orders[i].lockedExposure = 2 * orders[i].stake
    /\ \E t \in DOMAIN trades :
         trades[t].layOrderId = i /\ trades[t].backOrderId < i
    /\ ledger[k].type = "EXPOSURE_LOCK"
    /\ ledger[k].userId = orders[i].userId
    /\ ledger[k].amount = 0 - orders[i].lockedExposure

\* C15: on a market that is SUSPENDED, CLOSED or SETTLED every placeOrder
\* is rejected with the market-status error and returns every table as it
\* was: no order, trade or ledger entry is created, no wallet or resting
\* order is modified.
C15_MarketNotOpenRejected ==
  marketStatus \in {"SUSPENDED", "CLOSED", "SETTLED"} =>
    \A u \in Users, s \in Selections, side \in Sides,
       p \in Prices, st \in Stakes :
      placeOrder(DB, u, s, side, p, st)
        = [db |-> DB, ok |-> FALSE, err |-> "Market is not OPEN"]

\* C15 witness: a market that is not open with a resting order that a
\* placement would trade against if the market were open.
C15_Witness ==
  /\ marketStatus \in {"SUSPENDED", "CLOSED"}
  /\ \E u \in Users, side \in Sides, p \in Prices, st \in Stakes :
       /\ ~placeOrder(DB, u, "s1", side, p, st).ok
       /\ LET r == placeOrder([DB EXCEPT !.marketStatus = "OPEN"],
                              u, "s1", side, p, st)
          IN r.ok /\ Len(r.db.trades) > Len(trades)

\* C16: cancelOrder succeeds exactly when the order exists, belongs to the
\* requesting user and is OPEN or PARTIAL; a failed call returns every table
\* as it was; and an order that is MATCHED or CANCELLED is never changed
\* again by operations that run one after the other.
C16_CancelPreconditions ==
  /\ [](\A u \in Users, id \in 1..(MaxOrders + 1) :
          LET r == cancelOrder(DB, u, id)
          IN /\ r.ok <=> (/\ id \in DOMAIN orders
                          /\ orders[id].userId = u
                          /\ orders[id].status \in {"OPEN", "PARTIAL"})
             /\ ~r.ok => r.db = DB)
  /\ [][\A i \in DOMAIN orders :
          orders[i].status \in {"MATCHED", "CANCELLED"} => orders'[i] = orders[i]
       ]_vars

\* C16 witness: an open order that its owner can cancel and the other user
\* cannot, next to a cancelled and a matched order that nobody can cancel.
C16_Witness ==
  \E i, j, m \in DOMAIN orders :
    /\ cancelOrder(DB, orders[i].userId, i).ok
    /\ \E v \in Users \ {orders[i].userId} : ~cancelOrder(DB, v, i).ok
    /\ orders[j].status = "CANCELLED"
    /\ ~cancelOrder(DB, orders[j].userId, j).ok
    /\ orders[m].status = "MATCHED"
    /\ ~cancelOrder(DB, orders[m].userId, m).ok

\* C17: in every reachable state, a placeOrder that succeeds and makes no
\* trade, followed at once by cancelOrder of the new order by the same user,
\* gives back the wallets as they were before the placement, leaves the new
\* order CANCELLED with nothing matched, appends to the ledger an
\* EXPOSURE_LOCK entry and then an EXPOSURE_RELEASE entry of the same
\* magnitude, and changes no other row.
C17_PlaceCancelRoundTrip ==
  \A u \in Users, s \in OrderSelections, side \in Sides,
     p \in Prices, st \in Stakes :
    LET r1 == placeOrder(DB, u, s, side, p, st)
        id == Len(orders) + 1
        r2 == cancelOrder(r1.db, u, id)
        n == Len(ledger)
    IN (r1.ok /\ r1.db.trades = trades) =>
         /\ r2.ok
         /\ r2.db.wallet = wallet
         /\ r2.db.orders[id].status = "CANCELLED"
         /\ r2.db.orders[id].matchedStake = 0
         /\ SubSeq(r2.db.orders, 1, Len(orders)) = orders
         /\ Len(r2.db.ledger) = n + 2
         /\ SubSeq(r2.db.ledger, 1, n) = ledger
         /\ r2.db.ledger[n + 1].type = "EXPOSURE_LOCK"
         /\ r2.db.ledger[n + 2].type = "EXPOSURE_RELEASE"
         /\ r2.db.ledger[n + 1].userId = u /\ r2.db.ledger[n + 2].userId = u
         /\ r2.db.ledger[n + 2].amount > 0
         /\ r2.db.ledger[n + 1].amount = 0 - r2.db.ledger[n + 2].amount
         /\ r2.db.trades = trades
         /\ r2.db.marketExposure = marketExposure
         /\ r2.db.marketStatus = marketStatus

\* C17 witness: the last order is a LAY order at price 3 that was placed
\* next to a resting order of the opposite side without trading and then
\* cancelled; the last two ledger entries are its lock and its release.
C17_Witness ==
  /\ Len(orders) >= 2 /\ Len(ledger) >= 2
  /\ LET id == Len(orders)
         n == Len(ledger)
     IN /\ orders[id].status = "CANCELLED" /\ orders[id].matchedStake = 0
        /\ orders[id].side = "LAY" /\ orders[id].price = 3
        /\ \E j \in 1..(id - 1) :
             orders[j].side = "BACK" /\ orders[j].status = "OPEN"
        /\ ledger[n - 1].type = "EXPOSURE_LOCK"
        /\ ledger[n].type = "EXPOSURE_RELEASE"
        /\ ledger[n].userId = orders[id].userId
        /\ ledger[n - 1].userId = orders[id].userId
        /\ ledger[n].amount = 2 * orders[id].stake
        /\ ledger[n - 1].amount = 0 - ledger[n].amount

\* The trades that reference order id.
TradesOf(ts, id) ==
  {k \in DOMAIN ts : ts[k].backOrderId = id \/ ts[k].layOrderId = id}

\* C18: cancelOrder of a PARTIAL order by its owner succeeds, takes off the
\* owner's wallet exposure only the exposure of the unmatched remainder
\* (remainingStake for BACK, (price - 1) * remainingStake for LAY), sets the
\* status to CANCELLED and changes no other field of the order, no other
\* order, no balance and no trade; the unsettled trades of the order are
\* still returned by the trade query of the settlements.
C18_CancelPartialReleasesRemainder ==
  \A id \in DOMAIN orders :
    orders[id].status = "PARTIAL" =>
      LET o == orders[id]
          u == o.userId
          r == cancelOrder(DB, u, id)
          remainder == IF o.side = "BACK" THEN o.remainingStake
                       ELSE (o.price - 1) * o.remainingStake
      IN /\ r.ok
         /\ r.db.wallet = [wallet EXCEPT ![u].exposure = @ - remainder]
         /\ r.db.orders = [orders EXCEPT ![id].status = "CANCELLED"]
         /\ r.db.trades = trades
         /\ r.db.ledger = Append(ledger,
                                 [userId |-> u, amount |-> remainder,
                                  type |-> "EXPOSURE_RELEASE",
                                  balance |-> wallet[u].balance])
         /\ \A k \in TradesOf(trades, id) :
              ~trades[k].settled =>
                \E j \in DOMAIN UnsettledTradeIds(r.db) :
                  UnsettledTradeIds(r.db)[j] = k

\* C18 witness: on the open market, an order cancelled after a part of it
\* was matched, with its trade still unsettled.
C18_Witness ==
  /\ marketStatus = "OPEN"
  /\ \E i \in DOMAIN orders :
       /\ orders[i].status = "CANCELLED"
       /\ orders[i].matchedStake > 0 /\ orders[i].remainingStake > 0
       /\ \E k \in TradesOf(trades, i) : ~trades[k].settled
       /\ \E n \in DOMAIN ledger :
            /\ ledger[n].type = "EXPOSURE_RELEASE"
            /\ ledger[n].userId = orders[i].userId
            /\ ledger[n].amount = exposureToReleaseOf(orders[i])

\* The exposure of the resting side of trade t of the step: the stake when
\* the resting order is BACK, (price - 1) * stake when it is LAY.
RestingExposure(t) ==
  IF orders[RestingId(t)].side = "BACK" THEN t.stake
  ELSE (t.price - 1) * t.stake

RECURSIVE RestingReleased(_, _)
\* Sum of the resting exposures of the new trades up to k whose resting
\* order belongs to user v.
RestingReleased(v, k) ==
  IF k <= Len(trades) THEN 0
  ELSE (IF orders[RestingId(trades'[k])].userId = v
          THEN RestingExposure(trades'[k]) ELSE 0) + RestingReleased(v, k - 1)

RECURSIVE MarketExposureAfter(_, _)
\* The MarketExposure row of user v after the new trades up to k: a trade
\* against an order of v creates the missing row with amount 0 and lowers an
\* existing row by the resting exposure of the trade.
MarketExposureAfter(v, k) ==
  IF k <= Len(trades) THEN marketExposure[v]
  ELSE LET prev == MarketExposureAfter(v, k - 1)
           t == trades'[k]
       IN IF orders[RestingId(t)].userId # v THEN prev
          ELSE IF prev.present
            THEN [prev EXCEPT !.exposureAmount = @ - RestingExposure(t)]
          ELSE [present |-> TRUE, exposureAmount |-> 0]

\* The exposure that the placement of the step locks for user v.
PlacementLock(v) ==
  LET o == orders'[IncomingId]
  IN IF o.userId = v THEN o.lockedExposure ELSE 0

ExactlyMatched(d, backUser, layUser, backId, layId, p, st) ==
  /\ Len(d.orders) = Len(orders) + 2
  /\ Len(d.trades) = Len(trades) + 1
  /\ SubSeq(d.trades, 1, Len(trades)) = trades
  /\ LET t == d.trades[Len(d.trades)]
     IN /\ t.price = p /\ t.stake = st /\ ~t.settled
        /\ t.backOrderId = backId /\ t.layOrderId = layId
  /\ d.orders[backId].status = "MATCHED" /\ d.orders[backId].side = "BACK"
  /\ d.orders[layId].status = "MATCHED" /\ d.orders[layId].side = "LAY"
  /\ d.orders[backId].remainingStake = 0 /\ d.orders[layId].remainingStake = 0
  /\ \A w \in Users : d.wallet[w].balance = wallet[w].balance
  /\ d.wallet[backUser].exposure = wallet[backUser].exposure + st
  /\ d.wallet[layUser].exposure = wallet[layUser].exposure + (p - 1) * st

\* C20: in every state with the market open and no open order on the
\* selection, a BACK order (p, st) and a LAY order (p, st) of two different
\* users on the selection, placed one after the other in either order and
\* both accepted, end in an exact match: one trade (p, st), both orders
\* MATCHED, balances unchanged, wallet exposure st for the back user and
\* (p - 1) * st for the lay user on top of what they had (the incoming
\* order's lock is not released by the match).
C20_ExactMatchTwoUsers ==
  (marketStatus = "OPEN" /\ \A i \in DOMAIN orders : ~Active(orders[i])) =>
    \A b \in Users, l \in Users, s \in OrderSelections,
       p \in Prices, st \in Stakes :
      LET n == Len(orders)
          b1 == placeOrder(DB, b, s, "BACK", p, st)
          l2 == placeOrder(b1.db, l, s, "LAY", p, st)
          l1 == placeOrder(DB, l, s, "LAY", p, st)
          b2 == placeOrder(l1.db, b, s, "BACK", p, st)
      IN /\ (b # l /\ b1.ok /\ l2.ok)
              => ExactlyMatched(l2.db, b, l, n + 1, n + 2, p, st)
         /\ (b # l /\ l1.ok /\ b2.ok)
              => ExactlyMatched(b2.db, b, l, n + 2, n + 1, p, st)

\* C20 witness: the first two orders are a BACK and then a LAY of two users
\* at price 3 for stake 1, both MATCHED by one unsettled trade; the back
\* user's wallet exposure is 1, the lay user's is 2, both balances are 3.
C20_Witness ==
  /\ Len(orders) = 2 /\ Len(trades) = 1 /\ ~trades[1].settled
  /\ orders[1].side = "BACK" /\ orders[2].side = "LAY"
  /\ orders[1].userId # orders[2].userId
  /\ orders[1].price = 3 /\ orders[2].price = 3
  /\ orders[1].stake = 1 /\ orders[2].stake = 1
  /\ orders[1].status = "MATCHED" /\ orders[2].status = "MATCHED"
  /\ trades[1].price = 3 /\ trades[1].stake = 1
  /\ wallet[orders[1].userId] = [balance |-> 3, exposure |-> 1]
  /\ wallet[orders[2].userId] = [balance |-> 3, exposure |-> 2]

\* ------------------------------------------------------------------------
\* Market status transitions
\* ------------------------------------------------------------------------
\* The transitions of the market life cycle.
LegalMarketStep(a, b) ==
  \/ a = "OPEN" /\ b = "SUSPENDED"
  \/ a = "SUSPENDED" /\ b = "OPEN"
  \/ a \in {"OPEN", "SUSPENDED"} /\ b = "CLOSED"
  \/ a = "CLOSED" /\ b = "SETTLED"

\* C21: the market status only changes along OPEN -> SUSPENDED,
\* SUSPENDED -> OPEN, OPEN/SUSPENDED -> CLOSED and CLOSED -> SETTLED (a
\* settlement that closes and settles in one transaction commits both steps
\* together); a request to updateMarketStatus for any other change fails
\* and leaves the status as it is.
C21_MarketTransitionsLegal ==
  /\ [](\A status \in MarketStatuses :
          (status # marketStatus /\ ~LegalMarketStep(marketStatus, status))
            => LET r == updateMarketStatus(DB, status)
               IN ~r.ok /\ r.db.marketStatus = marketStatus)
  /\ [][marketStatus' # marketStatus =>
          \/ LegalMarketStep(marketStatus, marketStatus')
          \/ marketStatus \in {"OPEN", "SUSPENDED"} /\ marketStatus' = "SETTLED"]_vars

\* C22: every trade references one BACK order and one LAY order that are
\* distinct and belong to different users.
C22_TradeBetweenTwoUsers ==
  \A k \in DOMAIN trades :
    LET t == trades[k]
    IN /\ orders[t.backOrderId].side = "BACK"
       /\ orders[t.layOrderId].side = "LAY"
       /\ t.backOrderId # t.layOrderId
       /\ orders[t.backOrderId].userId # orders[t.layOrderId].userId

\* The status that the fill state of order o calls for.
StatusOfFill(o) ==
  IF o.remainingStake = 0 THEN "MATCHED"
  ELSE IF o.matchedStake > 0 THEN "PARTIAL"
  ELSE "OPEN"

\* The opposite book of an incoming order is empty.
OppositeBookEmpty(db, selectionId, side) ==
  \A i \in DOMAIN db.orders :
    LET o == db.orders[i]
    IN ~(o.selectionId = selectionId /\ o.side # side /\ Active(o))

\* C23 as stated: for every order, status = OPEN iff matchedStake = 0,
\* status = PARTIAL iff 0 < matchedStake < stake, and status = MATCHED iff
\* remainingStake = 0.
C23_StatusIffFill ==
  \A i \in DOMAIN orders :
    LET o == orders[i]
    IN /\ (o.status = "OPEN") <=> (o.matchedStake = 0)
       /\ (o.status = "PARTIAL") <=> (0 < o.matchedStake /\ o.matchedStake < o.stake)
       /\ (o.status = "MATCHED") <=> (o.remainingStake = 0)

\* C23: every order that is not CANCELLED has status OPEN iff matchedStake
\* = 0, PARTIAL iff 0 < matchedStake < stake and MATCHED iff remainingStake
\* = 0; a CANCELLED order keeps the fill state it was cancelled with
\* (remainingStake > 0).  An accepted placeOrder leaves the incoming order
\* MATCHED if remainingStake = 0, PARTIAL if matchedStake > 0 and
\* remainingStake > 0, and OPEN otherwise; with an empty opposite book it
\* is OPEN with remainingStake = stake.
C23_StatusAgreesWithFill ==
  /\ \A i \in DOMAIN orders :
       LET o == orders[i]
       IN IF o.status = "CANCELLED"
            THEN o.remainingStake > 0 /\ o.matchedStake < o.stake
            ELSE /\ (o.status = "OPEN") <=> (o.matchedStake = 0)
                 /\ (o.status = "PARTIAL") <=>
                      (0 < o.matchedStake /\ o.matchedStake < o.stake)
                 /\ (o.status = "MATCHED") <=> (o.remainingStake = 0)
  /\ \A u \in Users, s \in OrderSelections, side \in Sides,
        p \in Prices, st \in Stakes :
       LET r == placeOrder(DB, u, s, side, p, st)
           o == r.db.orders[Len(orders) + 1]
       IN r.ok =>
            /\ o.status = StatusOfFill(o)
            /\ o.matchedStake + o.remainingStake = st
            /\ OppositeBookEmpty(DB, s, side) =>
                 (o.status = "OPEN" /\ o.remainingStake = st)

\* C23 witness: a PARTIAL order, a MATCHED order and an order cancelled
\* before any fill are on the book together.
C23_Witness ==
  \E i, j, k \in DOMAIN orders :
    /\ orders[i].status = "PARTIAL" /\ orders[i].matchedStake = 1
    /\ orders[i].remainingStake = 1
    /\ orders[j].status = "MATCHED" /\ orders[j].remainingStake = 0
    /\ orders[k].status = "CANCELLED" /\ orders[k].matchedStake = 0

\* The ledger kinds whose amounts are movements of the balance.
BalanceKinds ==
  {"CREDIT", "DEBIT", "TRANSFER_IN", "TRANSFER_OUT", "ORDER_SETTLE",
   "BET_SETTLE", "BET_REFUND"}

\* C24: for every user the wallet balance is the opening balance (3 for
\* every wallet here, 0 in the statement) plus the sum of the amounts of the
\* user's ledger entries of kind CREDIT, DEBIT, TRANSFER_IN, TRANSFER_OUT,
\* ORDER_SETTLE, BET_SETTLE or BET_REFUND.
C24_BalanceIsLedgerSum ==
  \A u \in Users :
    wallet[u].balance = 3 + LedgerSum(ledger, Len(ledger), u, BalanceKinds)

\* ------------------------------------------------------------------------
\* Every operation that writes a ledger entry, with the wallet operations
\* that check and then write (lockExposure, transferCoins, placeCasinoBet)
\* also in flight across the commits of the others.  The operations start
\* while the ledger has room; placements are at one price.
\* ------------------------------------------------------------------------
LedgerPlaceOrder == RaceHasRoom /\ PlaceOrderFrom(MaxWalletOrders, AdminPrices)

LedgerReleaseExposure == RaceHasRoom /\ ReleaseExposure

LedgerAddBalance == RaceHasRoom /\ AddBalance

LedgerProcessCasinoWin == RaceHasRoom /\ ProcessCasinoWin

NextLedger ==
  \/ LedgerPlaceOrder
  \/ CancelOrder
  \/ ForceCloseMarket
  \/ SettleMatch
  \/ RaceLockExposure
  \/ LedgerReleaseExposure
  \/ RaceTransferCoins
  \/ LedgerAddBalance
  \/ RacePlaceCasinoBet
  \/ LedgerProcessCasinoWin
  \/ BeginLockExposure
  \/ BeginTransferCoins
  \/ BeginPlaceCasinoBet
  \/ FinishWalletOp

SpecLedger == Init /\ [][NextLedger]_vars

\* The ledger rows of user u written by the step.
NewEntriesOf(u) ==
  {k \in (Len(ledger) + 1)..Len(ledger') : ledger'[k].userId = u}

RECURSIVE OpenLockOf(_, _, _)
\* Sum over the user's OPEN/PARTIAL orders among os[1..n] of the lock of the
\* remainder: remainingStake for BACK, (price - 1) * remainingStake for LAY.
OpenLockOf(os, n, u) ==
  IF n = 0 THEN 0
  ELSE (IF os[n].userId = u /\ Active(os[n])
          THEN Liability(os[n].side, os[n].price, os[n].remainingStake)
          ELSE 0) + OpenLockOf(os, n - 1, u)

RECURSIVE MatchedLockOf(_, _, _, _)
\* Sum over the unsettled trades among ts[1..n] of what the user's orders
\* locked for the traded stake, at each order's own price.
MatchedLockOf(os, ts, n, u) ==
  IF n = 0 THEN 0
  ELSE LET t == ts[n]
           b == os[t.backOrderId]
           l == os[t.layOrderId]
       IN (IF ~t.settled /\ b.userId = u THEN t.stake ELSE 0)
          + (IF ~t.settled /\ l.userId = u THEN (l.price - 1) * t.stake ELSE 0)
          + MatchedLockOf(os, ts, n - 1, u)

\* C26: each user's wallet exposure is the sum over their OPEN/PARTIAL
\* orders of the lock of the remainder plus the lock of their matched stake
\* whose trades are not yet settled.
C26_ExposureIsOpenAndUnsettledLock ==
  \A u \in Users :
    wallet[u].exposure
      = OpenLockOf(orders, Len(orders), u)
        + MatchedLockOf(orders, trades, Len(trades), u)

\* C27: in a SETTLED market the runners are either all isWinner = null or
\* exactly one runner has isWinner = true and all the others false.
C27_AtMostOneWinner ==
  marketStatus = "SETTLED" =>
    \/ \A s \in Selections : isWinner[s] = "null"
    \/ \E s \in Selections :
         /\ isWinner[s] = "true"
         /\ \A r \in Selections \ {s} : isWinner[r] = "false"

\* C28: once the market is SETTLED no order is OPEN or PARTIAL and every
\* user (all orders are orders of this market) has wallet exposure 0.
C28_SettledMarketHoldsNoExposure ==
  marketStatus = "SETTLED" =>
    /\ \A i \in DOMAIN orders : ~Active(orders[i])
    /\ \A u \in Users : wallet[u].exposure = 0

\* C29: each user's wallet exposure is the sum of the user's MarketExposure
\* amounts over all markets (one market here; no row counts as 0).
C29_WalletExposureIsMarketExposureSum ==
  \A u \in Users :
    wallet[u].exposure
      = IF marketExposure[u].present THEN marketExposure[u].exposureAmount ELSE 0

\* ------------------------------------------------------------------------
\* getOrderBook of the sport controller
\* ------------------------------------------------------------------------
DecimalDigits == <<"0", "1", "2", "3", "4", "5", "6", "7", "8", "9">>

RECURSIVE toString(_)
\* Decimal.toString of a whole, non-negative amount.
toString(n) ==
  IF n < 10 THEN DecimalDigits[n + 1]
  ELSE toString(n \div 10) \o DecimalDigits[(n % 10) + 1]

\* Mutant of IsBookRow: orders of every status are aggregated.
IsBookRowAnyStatus(o, selectionId, side) ==
  /\ o.selectionId = selectionId
  /\ o.side = side

\* WHERE clause of the two groupBy queries.
IsBookRow(o, selectionId, side) ==
  /\ o.selectionId = selectionId
  /\ o.side = side
  /\ o.status \in {"OPEN", "PARTIAL"}

RECURSIVE groupByPrice(_, _, _, _)
\* groupBy price with _sum of remainingStake and _count of id over the rows
\* os[1..n] of the WHERE clause: a function from the prices that occur to
\* the aggregates.
groupByPrice(os, n, selectionId, side) ==
  IF n = 0 THEN << >>
  ELSE LET g == groupByPrice(os, n - 1, selectionId, side)
           o == os[n]
       IN IF ~IsBookRow(o, selectionId, side) THEN g
          ELSE IF o.price \in DOMAIN g
            THEN [g EXCEPT ![o.price] =
                    [sum |-> @.sum + o.remainingStake, count |-> @.count + 1]]
            ELSE [p \in DOMAIN g \cup {o.price} |->
                    IF p = o.price
                      THEN [sum |-> o.remainingStake, count |-> 1]
                      ELSE g[p]]

RECURSIVE orderByPrice(_, _)
\* ORDER BY price of the groups: descending if desc, else ascending.
orderByPrice(prices, desc) ==
  IF prices = {} THEN <<>>
  ELSE LET first == CHOOSE p \in prices :
                      \A q \in prices : IF desc THEN q <= p ELSE p <= q
       IN <<first>> \o orderByPrice(prices \ {first}, desc)

\* One side of the response: the groups in order, amounts as strings.
bookLevels(db, selectionId, side, desc) ==
  LET g == groupByPrice(db.orders, Len(db.orders), selectionId, side)
      ps == orderByPrice(DOMAIN g, desc)
  IN [i \in DOMAIN ps |->
        [price |-> toString(ps[i]),
         availableStake |-> toString(g[ps[i]].sum),
         orderCount |-> g[ps[i]].count]]

getOrderBook(db, selectionId) ==
  [back |-> bookLevels(db, selectionId, "BACK", TRUE),
   lay |-> bookLevels(db, selectionId, "LAY", FALSE)]

\* The amounts that a response can carry, and the amount that a string of
\* the response denotes.
BookNumbers == 0..(MaxOrders * 3)
ParseDecimal(s) == CHOOSE n \in BookNumbers : toString(n) = s

\* The OPEN or PARTIAL orders of the side on the selection at price p.
RestingAt(selectionId, side, p) ==
  {i \in DOMAIN orders :
     /\ orders[i].selectionId = selectionId /\ orders[i].side = side
     /\ orders[i].price = p /\ Active(orders[i])}

RECURSIVE SumRemaining(_)
SumRemaining(ids) ==
  IF ids = {} THEN 0
  ELSE LET i == CHOOSE j \in ids : TRUE
       IN orders[i].remainingStake + SumRemaining(ids \ {i})

\* The levels are those of the side's OPEN/PARTIAL orders on the selection:
\* one level per distinct price, with the sum of remainingStake and the
\* number of orders, in strictly descending (desc) or ascending price order.
LevelsAgree(levels, selectionId, side, desc) ==
  LET priceOf(i) == ParseDecimal(levels[i].price)
  IN /\ {priceOf(i) : i \in DOMAIN levels}
          = {p \in Prices : RestingAt(selectionId, side, p) # {}}
     /\ \A i \in DOMAIN levels :
          /\ ParseDecimal(levels[i].availableStake)
               = SumRemaining(RestingAt(selectionId, side, priceOf(i)))
          /\ levels[i].orderCount
               = Cardinality(RestingAt(selectionId, side, priceOf(i)))
     /\ \A i, j \in DOMAIN levels :
          i < j => IF desc THEN priceOf(i) > priceOf(j)
                   ELSE priceOf(i) < priceOf(j)

\* C30: getOrderBook for a selection returns, for each side, exactly one
\* level per distinct price among that side's OPEN or PARTIAL orders, with
\* availableStake the sum of their remainingStake and orderCount their
\* number; BACK levels in strictly descending and LAY levels in strictly
\* ascending price order; MATCHED and CANCELLED orders contribute nothing.
C30_OrderBookAggregates ==
  \A s \in Selections :
    LET book == getOrderBook(DB, s)
    IN /\ LevelsAgree(book.back, s, "BACK", TRUE)
       /\ LevelsAgree(book.lay, s, "LAY", FALSE)

\* C30 witness: three resting BACK orders, one at price 3 and two at price
\* 2, give two levels, the higher price first, the second with two orders.
C30_Witness ==
  /\ getOrderBook(DB, "s1").back
       = <<[price |-> "3", availableStake |-> "1", orderCount |-> 1],
           [price |-> "2", availableStake |-> "3", orderCount |-> 2]>>
  /\ getOrderBook(DB, "s1").lay = <<>>

\* ------------------------------------------------------------------------
\* Match status transitions
\* ------------------------------------------------------------------------
\* The transitions of the match life cycle.  A match that completes while it
\* is still recorded as UPCOMING takes both steps to COMPLETED at once.
LegalMatchStep(a, b) ==
  \/ a = "UPCOMING" /\ b = "LIVE"
  \/ a \in {"UPCOMING", "LIVE"} /\ b = "COMPLETED"
  \/ a \in {"UPCOMING", "LIVE"} /\ b = "CANCELLED"

\* C31: the match status only changes along UPCOMING -> LIVE -> COMPLETED
\* or from UPCOMING or LIVE to CANCELLED; a request to updateMatchStatus for
\* any other change (out of COMPLETED or CANCELLED, LIVE back to UPCOMING)
\* fails and leaves the match as it is.
C31_MatchTransitionsLegal ==
  /\ [](\A status \in MatchStatuses :
          (status # matchStatus /\ ~LegalMatchStep(matchStatus, status))
            => LET r == updateMatchStatus(DB, status)
               IN ~r.ok /\ r.db.matchStatus = matchStatus)
  /\ [][matchStatus' # matchStatus
          => LegalMatchStep(matchStatus, matchStatus')]_vars

\* C32: a settlement that settles trades between two users with a decided
\* outcome (back wins or lay wins) only moves funds between the counterparties: the sum of all
\* wallet balances is the same after it as before, as it is after every
\* placement and cancellation.
C32_SettlementConservesBalances ==
  [][(\A k \in DOMAIN trades :
        BecomesSettled(k) =>
          /\ isWinner'[trades[k].selectionId] # "null"
          /\ orders[trades[k].backOrderId].userId
               # orders[trades[k].layOrderId].userId)
       => TotalBalance(wallet') = TotalBalance(wallet)]_vars

\* C33: the exposure locked for an order is released at most once.  The
\* lock of an order is the lock of its remainder plus, for each of its
\* trades, the lock of the traded stake at the order's own price; a step
\* that settles one trade takes off each owner's wallet exposure at most
\* what the owner's order locked for the traded stake.
C33_ReleaseWithinLock ==
  [][\A k \in DOMAIN trades :
       SettlesOnly(k) =>
         LET t == trades[k]
             b == orders[t.backOrderId]
             l == orders[t.layOrderId]
         IN /\ wallet[b.userId].exposure - wallet'[b.userId].exposure
                 <= Liability("BACK", b.price, t.stake)
            /\ wallet[l.userId].exposure - wallet'[l.userId].exposure
                 <= Liability("LAY", l.price, t.stake)
    ]_vars

\* C34: the order book of a selection is never crossed in a committed
\* state: no OPEN or PARTIAL BACK order and OPEN or PARTIAL LAY order on
\* the same selection have back.price >= lay.price.
C34_BookNeverCrossed ==
  \A i, j \in DOMAIN orders :
    ~(/\ Active(orders[i]) /\ Active(orders[j])
      /\ orders[i].selectionId = orders[j].selectionId
      /\ orders[i].side = "BACK" /\ orders[j].side = "LAY"
      /\ orders[i].price >= orders[j].price)

\* ------------------------------------------------------------------------
\* Automatic settlement statement by statement, next to placements in
\* flight.  settleMatch runs at Read Committed: it updates the match, the
\* market and the runners, reads the unsettled trades and settles them
\* (step 5), and only then reads the OPEN/PARTIAL orders and cancels them
\* (step 6).  Its writes are invisible to others until it commits, and it
\* holds the locks of the rows it wrote.  A placement whose snapshot shows
\* the market OPEN can commit between step 5 and step 6 if it writes no row
\* that the settlement has locked.
\* ------------------------------------------------------------------------
\* settleMatch up to the read of the unsettled trades in step 5.
BeginSettleMatchTrades ==
  \E winnerName \in WinnerNames :
    /\ settling = <<>>
    /\ matchStatus \in {"LIVE", "UPCOMING"}
    /\ marketStatus \in {"OPEN", "SUSPENDED"}
    /\ settling' = <<[kind |-> "settleMatch", winnerSelectionIds |-> {},
                      winnerName |-> winnerName,
                      unsettledTrades |-> UnsettledTradeIds(DB)]>>
    /\ UNCHANGED <<dbvars, pending, walletOps>>

\* The users whose wallet and MarketExposure rows the settlement in flight
\* has written in step 5.
SettlementLockedUsers ==
  IF settling = <<>> THEN {}
  ELSE {orders[trades[settling[1].unsettledTrades[k]].backOrderId].userId :
          k \in DOMAIN settling[1].unsettledTrades}
       \cup
       {orders[trades[settling[1].unsettledTrades[k]].layOrderId].userId :
          k \in DOMAIN settling[1].unsettledTrades}

\* Step 6 of settleMatch and its commit: the trades read in step 5 are
\* settled, the orders that are OPEN or PARTIAL now are cancelled.
FinishSettleMatchCancel ==
  /\ settling # <<>>
  /\ LET t == settling[1]
         db1 == [DB EXCEPT
                   !.matchStatus = "COMPLETED",
                   !.marketStatus = "SETTLED",
                   !.isWinner =
                      [s \in Selections |->
                         IF t.winnerName # NoWinner /\ s = t.winnerName
                           THEN "true" ELSE "false"]]
         db2 == cancelOpenOrders(settleTrades(db1, t.unsettledTrades))
     IN /\ Write(db2)
        /\ pending' = MarkDirty(pending, ChangedRows(DB, db2))
  /\ settling' = <<>>
  /\ UNCHANGED walletOps

\* The commit of a placement in flight; while a settlement is in flight the
\* placement commits only if it writes no row that the settlement locked.
PathFinishPlaceOrder ==
  /\ pending # <<>>
  /\ LET t == pending[1]
         r == placeOrder(t.snap, t.userId, t.selectionId, t.side, t.price, t.stake)
         w == ChangedRows(t.snap, r.db)
     IN (w.wallet \cup w.marketExposure) \cap SettlementLockedUsers = {}
  /\ FinishPlaceOrder

PathPlaceOrder == settling = <<>> /\ PlaceOrderFrom(MaxTxOrders, AdminPrices)

PathCancelOrder == settling = <<>> /\ CancelOrder

PathForceCloseMarket == settling = <<>> /\ ForceCloseMarket

PathSettleMatch == settling = <<>> /\ SettleMatch

NextPath ==
  \/ PathPlaceOrder
  \/ PathCancelOrder
  \/ PathForceCloseMarket
  \/ PathSettleMatch
  \/ BeginPlaceOrder
  \/ PathFinishPlaceOrder
  \/ BeginSettleMatchTrades
  \/ FinishSettleMatchCancel

SpecPath == Init /\ [][NextPath]_vars

\* C35: every unsettled trade has a settlement path: in every committed
\* state without a settlement in flight, for every unsettled trade either
\* forceCloseMarket is accepted and settles it, or the match is still
\* UPCOMING or LIVE and automatic settlement settles it.
C35_SettlementPathExists ==
  settling = <<>> =>
    \A k \in DOMAIN trades :
      ~trades[k].settled =>
        \/ \E winnerSelectionIds \in WinnerLists :
             LET r == forceCloseMarket(DB, winnerSelectionIds)
             IN r.ok /\ r.db.trades[k].settled
        \/ /\ matchStatus \in {"LIVE", "UPCOMING"}
           /\ \E winnerName \in WinnerNames :
                settleMatch(DB, winnerName).db.trades[k].settled

RECURSIVE CountEntries(_, _, _, _, _)
\* Number of the entries among l[1..n] of the user, type and amount.
CountEntries(l, n, u, type, amount) ==
  IF n = 0 THEN 0
  ELSE (IF l[n].userId = u /\ l[n].type = type /\ l[n].amount = amount
          THEN 1 ELSE 0) + CountEntries(l, n - 1, u, type, amount)

\* The two ledgers hold the same ORDER_SETTLE and EXPOSURE_RELEASE entries
\* (user, type and amount), in whatever order.
SameSettlementEntries(l1, l2) ==
  \A u \in Users, type \in {"ORDER_SETTLE", "EXPOSURE_RELEASE"} :
    \A k \in DOMAIN l1 \cup DOMAIN l2 :
      LET amount == IF k \in DOMAIN l1 THEN l1[k].amount ELSE l2[k].amount
      IN /\ CountEntries(l1, Len(l1), u, type, amount)
              = CountEntries(l2, Len(l2), u, type, amount)
         /\ k \in DOMAIN l1 \cap DOMAIN l2 =>
              CountEntries(l1, Len(l1), u, type, l2[k].amount)
                = CountEntries(l2, Len(l2), u, type, l2[k].amount)

\* C36: for the same market state and the same winning runner,
\* forceCloseMarket and automatic settlement end with the same wallets,
\* order statuses, trade settled flags, MarketExposure amounts and
\* ORDER_SETTLE / EXPOSURE_RELEASE ledger entries.
C36_SettlementPathsEquivalent ==
  (marketStatus \in {"OPEN", "SUSPENDED"} /\ matchStatus \in {"LIVE", "UPCOMING"}) =>
    \A s \in Selections :
      LET f == forceCloseMarket(DB, {s}).db
          a == settleMatch(DB, s).db
      IN /\ f.wallet = a.wallet
         /\ f.orders = a.orders
         /\ f.trades = a.trades
         /\ f.isWinner = a.isWinner
         /\ f.marketStatus = a.marketStatus
         /\ f.marketExposure = a.marketExposure
         /\ SameSettlementEntries(f.ledger, a.ledger)

RECURSIVE RefundTrades(_, _)
\* refundTrade applied to each of the trades in turn.
RefundTrades(db, tids) ==
  IF tids = <<>> THEN db
  ELSE RefundTrades(refundTrade(db, Head(tids)), Tail(tids))

\* C37: automatic settlement of a drawn event (no winner name) on an OPEN or
\* SUSPENDED market refunds every unsettled trade to both sides: every
\* trade is settled, no runner is marked as decided, and the balances are
\* those that refundTrade gives for each unsettled trade.
C37_DrawRefundsTrades ==
  (marketStatus \in {"OPEN", "SUSPENDED"} /\ matchStatus \in {"LIVE", "UPCOMING"}) =>
    LET a == settleMatch(DB, NoWinner).db
        refunded == RefundTrades(DB, UnsettledTradeIds(DB))
    IN /\ \A k \in DOMAIN trades : a.trades[k].settled
       /\ \A u \in Users : a.wallet[u].balance = refunded.wallet[u].balance
       /\ UnsettledTradeIds(DB) # <<>> =>
            \A s \in Selections : a.isWinner[s] = "null"

\* ------------------------------------------------------------------------
\* Settlements that fail part-way.  Both settlements run inside
\* prisma.$transaction: a statement that throws rolls back every write of
\* the transaction.
\* ------------------------------------------------------------------------
\* Mutant of transaction: the writes made before the failure stay.
transactionNoRollback(db, body) ==
  Result(body.db, body.ok, body.err)

\* prisma.$transaction around a body that ran on db: the body's writes are
\* committed if it returned and discarded if it threw.
transaction(db, body) ==
  IF body.ok THEN Result(body.db, TRUE, "") ELSE Result(db, FALSE, body.err)

\* The writes of forceCloseMarket up to a failure at the n-th unsettled
\* trade (after the last trade: at the final update of the market).
forceCloseStepsUntil(db, winnerSelectionIds, n) ==
  LET db1 == [db EXCEPT
                !.marketStatus = "CLOSED",
                !.isWinner =
                   [s \in Selections |->
                      IF winnerSelectionIds # {}
                        THEN (IF s \in winnerSelectionIds
                                THEN "true" ELSE "false")
                        ELSE "null"]]
      db2 == forceCloseCancelOrders(db1, OpenOrderIds(db1))
  IN forceCloseSettleTrades(db2, SubSeq(UnsettledTradeIds(db2), 1, n - 1))

\* forceCloseMarket with a failure at the n-th unsettled trade.
forceCloseMarketFailing(db, winnerSelectionIds, n) ==
  IF db.marketStatus = "SETTLED"
    THEN Result(db, FALSE, "Market is already settled")
    ELSE transaction(db, [db |-> forceCloseStepsUntil(db, winnerSelectionIds, n),
                          ok |-> FALSE, err |-> "statement failed"])

\* The writes of settleMatch up to a failure at the n-th unsettled trade
\* (after the last trade: in cancelOpenOrders).
settleMatchUntil(db, winnerName, n) ==
  LET db1 == [db EXCEPT !.matchStatus = "COMPLETED"]
      db2 == [db1 EXCEPT
                !.marketStatus = "SETTLED",
                !.isWinner =
                   [s \in Selections |->
                      IF winnerName # NoWinner /\ s = winnerName
                        THEN "true" ELSE "false"]]
  IN IF db1.marketStatus \notin {"OPEN", "SUSPENDED"} THEN db1
     ELSE settleTrades(db2, SubSeq(UnsettledTradeIds(db2), 1, n - 1))

\* settleMatch with a failure at the n-th unsettled trade.
settleMatchFailing(db, winnerName, n) ==
  transaction(db, [db |-> settleMatchUntil(db, winnerName, n),
                   ok |-> FALSE, err |-> "statement failed"])

\* The places where a settlement of the present state can fail.
FailurePoints == 1..(Len(UnsettledTradeIds(DB)) + 1)

====
